---------------------------- MODULE Spec2Model ----------------------------
(***************************************************************************)
(* Memory subsystem of agent-kit (templates/basic-agent/src/memory.ts).    *)
(*                                                                         *)
(*   ShortTermMemory  - the working context buffer: add(), getMessages(),  *)
(*                      getTokenCount(), compactIfNeeded()                 *)
(*   LongTermMemory   - the semantic store: store(), search(), getAll(),   *)
(*                      delete(), decay()                                  *)
(*                                                                         *)
(* A string is represented by what the code reads of it: its length in     *)
(* characters and the text it was derived from.  A content value is        *)
(*   [kind, n, cuts, len]                                                  *)
(* kind = "text"    : the text of the message object n, cut `cuts` times   *)
(*                    by slice(0, 500) + '\n...[truncated for brevity]'    *)
(* kind = "omitted" : `[${n} earlier messages omitted for context length]` *)
(* Object identity of a TrackedMessage is the field id: 0 for the system   *)
(* prompt, k for the message pushed by the k-th add(), -k for the marker   *)
(* object allocated during the k-th add().  The timestamp field of a       *)
(* TrackedMessage is written and never read, and is left out.              *)
(*                                                                         *)
(* Numbers of the store are fixed-point: importance in hundredths, cosine  *)
(* similarity in thousandths, the boosted score and minSimilarity in       *)
(* ten-thousandths.  Date.now() is the variable now, in milliseconds; one  *)
(* call of the store reads a single value of it.                           *)
(***************************************************************************)
EXTENDS Integers, Sequences, FiniteSets, TLC

VARIABLES
    messages,     \* ShortTermMemory.messages
    maxTokens,    \* ShortTermMemory.maxTokens
    pushed,       \* history: messages right after the push of the last add(),
                  \* before compactIfNeeded() ran
    truncated,    \* history: messages after the tool-result pass of the last
                  \* add() (equal to pushed when that pass did not run)
    lastAdd,      \* what the last add() handed back to its caller
    adds,         \* number of add() calls made so far
    bigAdded      \* number of added messages of at least ToolThreshold tokens

VARIABLES
    memories,     \* LongTermMemory: the rows of table memories, in rowid order
    dimension,    \* LongTermMemory.dimension
    now,          \* the clock read by Date.now()
    ret,          \* the call last made on the store and what it returned
    replaced,     \* history: the rows the last store() displaced
    hits,         \* history: for the id of every row, the number of searches
                  \* that returned it since store() last wrote it, and the
                  \* time of the last search that returned it
    ops           \* number of calls and clock advances so far

\* AgentMemory and its three memories, as the guide (guide/03-memory.md) lists them
VARIABLES
    shortTerm,    \* AgentMemory.shortTerm: ShortTermMemory.messages
    longTerm,     \* AgentMemory.longTerm: the rows of its table memories
    episodes,     \* AgentMemory.episodic: the rows of table episodes
    closed,       \* whether close() has closed the two databases
    clock,        \* the clock read by Date.now(), in hours
    answer,       \* the call last made and how it ended
    calls         \* number of calls and clock advances so far

\* jsonTransform of the MCP server template (templates/mcp-server/src/tools.ts)
VARIABLES
    request,      \* the arguments of jsonTransform, as the call leaves them
    response      \* how the last call ended, and the number of calls made

\* Agent.run of the template (templates/basic-agent/src/index.ts)
VARIABLES
    MAX_ITERATIONS,  \* Number(process.env.MAX_ITERATIONS) || 15
    pc,              \* "idle" between two run() calls, "loop" at the while test
    iterations,      \* the local of run()
    modelCalls,      \* history: chat.completions.create() calls of this run()
    returned,        \* what the last run() returned
    origin           \* history: for the id of every tool message, the id of the
                     \* assistant message whose tool_calls hold its tool_call_id

\* main() of the guide (guide/03-memory.md, Using It in Your Agent)
VARIABLES
    mainPc,       \* where main() is: "input", "closing", "ended" or "crashed"
    tasks,        \* the processResponse() calls started and not settled
    raced,        \* history: a store() reached the database after close()
    lost          \* history: the extracted memories no store() wrote

\* CircuitBreaker of the guide (Error Recovery) and the calls made through it
VARIABLES
    maxFailures,  \* CircuitBreaker.maxFailures
    resetTimeMs,  \* CircuitBreaker.resetTimeMs
    failures,     \* CircuitBreaker.failures
    lastFailure,  \* CircuitBreaker.lastFailure
    state,        \* CircuitBreaker.state
    pending,      \* the number of calls whose fn() has not settled
    time,         \* the clock read by Date.now()
    streak,       \* history: the failed calls since the last success
    lastCall      \* history: how the last call() began

bufferVars == <<messages, maxTokens, pushed, truncated, lastAdd, adds, bigAdded>>

guideVars == <<shortTerm, longTerm, episodes, closed, clock, answer, calls>>

storeVars == <<memories, dimension, now, ret, replaced, hits, ops>>

toolVars == <<request, response>>

loopVars == <<MAX_ITERATIONS, pc, iterations, modelCalls, returned, origin>>

mainVars == <<mainPc, tasks, raced, lost>>

breakerVars ==
    <<maxFailures, resetTimeMs, failures, lastFailure, state, pending, time, streak, lastCall>>

restVars == <<loopVars, mainVars, breakerVars>>

vars == <<bufferVars, storeVars, guideVars, toolVars, restVars>>

-----------------------------------------------------------------------------
(* Bounds of the model *)

MaxAdds == 20
MaxBig == 2

MaxOps == 5
MaxCalls == 3
MaxAgentCalls == 4
MaxTransforms == 2
MaxTouches == 6
MaxEarlierAdds == 1
MaxExchanges == 2
MaxBreakerCalls == 7

(* Program constants *)

keep == 3
keepEnd == 8
RecentWindow == 6
ToolThreshold == 300
PreviewChars == 500
TruncSuffixLen == 27
MarkerTokens == 20
MarkerFixedLen == 46
CharsPerToken == 4
MsPerDay == 86400000
DefaultMaxAgeDays == 90
ImportanceFloor100 == 70
AccessFloor == 3
SimWeight10 == 8
ImportanceWeight10 == 2

(* Inputs *)

SystemPromptLens == {40}
MaxTokensChoices == {50, 120, 600}
Inputs ==
    { [role |-> "user", len |-> 40],
      [role |-> "tool", len |-> 1204],
      [role |-> "assistant", len |-> 1204],
      [role |-> "tool", len |-> 1200] }

-----------------------------------------------------------------------------
(* Helpers *)

Min(a, b) == IF a < b THEN a ELSE b

Max(a, b) == IF a > b THEN a ELSE b

RECURSIVE Digits(_)
Digits(n) == IF n < 10 THEN 1 ELSE 1 + Digits(n \div 10)

RECURSIVE SumEst(_)
SumEst(s) == IF s = <<>> THEN 0 ELSE Head(s).tokenEstimate + SumEst(Tail(s))

-----------------------------------------------------------------------------
(* ShortTermMemory *)

estimateTokens(len) == (len + CharsPerToken - 1) \div CharsPerToken

extractContent(message) == message.content

TextContent(id, len) == [kind |-> "text", n |-> id, cuts |-> 0, len |-> len]

Truncate(content) ==
    [content EXCEPT !.cuts = @ + 1,
                    !.len = Min(@, PreviewChars) + TruncSuffixLen]

MarkerContent(dropped) ==
    [kind |-> "omitted", n |-> dropped, cuts |-> 0,
     len |-> MarkerFixedLen + Digits(dropped)]

Tracked(id, role, content) ==
    [id |-> id, role |-> role, content |-> content,
     tokenEstimate |-> estimateTokens(content.len)]

getTokenCount(msgs) == SumEst(msgs)

getMessages(msgs) == [i \in 1..Len(msgs) |-> [role |-> msgs[i].role, content |-> msgs[i].content]]

\* for (i = 1; i < length - 6; i++): 0-based 1 .. length-7, 1-based 2 .. length-6
InPass1RangeOneMore(i, n) == i >= 2 /\ i <= n - RecentWindow + 1

InPass1Range(i, n) == i >= 2 /\ i <= n - RecentWindow

Pass1Hits(m) == m.role = "tool" /\ m.tokenEstimate > ToolThreshold

TruncateTracked(m) ==
    [m EXCEPT !.content = Truncate(extractContent(m)),
              !.tokenEstimate = estimateTokens(Truncate(extractContent(m)).len)]

Pass1(msgs) ==
    [i \in 1..Len(msgs) |->
        IF InPass1Range(i, Len(msgs)) /\ Pass1Hits(msgs[i])
        THEN TruncateTracked(msgs[i])
        ELSE msgs[i]]

Marker(id, dropped) ==
    [id |-> id, role |-> "system", content |-> MarkerContent(dropped),
     tokenEstimate |-> MarkerTokens]

HeadOfFromOne(msgs) == SubSeq(msgs, 2, keep + 1)

HeadOf(msgs) == SubSeq(msgs, 1, keep)

TailOfOneMore(msgs) == SubSeq(msgs, Max(1, Len(msgs) - keepEnd), Len(msgs))

\* slice(-keepEnd): the whole array when it is shorter than keepEnd
TailOf(msgs) == SubSeq(msgs, Max(1, Len(msgs) - keepEnd + 1), Len(msgs))

Pass2LateGuard(msgs, markerId) ==
    IF Len(msgs) > keep + keepEnd + 2
    THEN HeadOf(msgs)
         \o <<Marker(markerId, Len(msgs) - keep - keepEnd)>>
         \o TailOf(msgs)
    ELSE msgs

Pass2TailFirst(msgs, markerId) ==
    IF Len(msgs) > keep + keepEnd
    THEN TailOf(msgs)
         \o <<Marker(markerId, Len(msgs) - keep - keepEnd)>>
         \o HeadOf(msgs)
    ELSE msgs

Pass2KeepingMarkers(msgs, markerId) ==
    IF Len(msgs) > keep + keepEnd
    THEN SubSeq(msgs, 1, IF msgs[keep + 1].content.kind = "omitted" THEN keep + 1 ELSE keep)
         \o <<Marker(markerId, Len(msgs) - keep - keepEnd)>>
         \o TailOf(msgs)
    ELSE msgs

Pass2(msgs, markerId) ==
    IF Len(msgs) > keep + keepEnd
    THEN HeadOf(msgs)
         \o <<Marker(markerId, Len(msgs) - keep - keepEnd)>>
         \o TailOf(msgs)
    ELSE msgs

\* The two steps of compactIfNeeded: the buffer after the tool-result loop
\* and the buffer it leaves in this.messages.
CompactStepsUnconditional(msgs, max, markerId) ==
    IF getTokenCount(msgs) <= max
    THEN [pass1 |-> msgs, result |-> msgs]
    ELSE [pass1 |-> Pass1(msgs), result |-> Pass2(Pass1(msgs), markerId)]

CompactSteps(msgs, max, markerId) ==
    IF getTokenCount(msgs) <= max
    THEN [pass1 |-> msgs, result |-> msgs]
    ELSE [pass1 |-> Pass1(msgs),
          result |-> IF getTokenCount(Pass1(msgs)) > max
                     THEN Pass2(Pass1(msgs), markerId)
                     ELSE Pass1(msgs)]

compactIfNeeded(msgs, max, markerId) == CompactSteps(msgs, max, markerId).result

\* add() is declared void, has no throw statement and sets no field besides
\* this.messages.
AddOutcome == [threw |-> FALSE, flagged |-> FALSE]

Constructor(promptLen, max) ==
    /\ messages = <<Tracked(0, "system", TextContent(0, promptLen))>>
    /\ maxTokens = max
    /\ pushed = messages
    /\ truncated = messages
    /\ lastAdd = AddOutcome
    /\ adds = 0
    /\ bigAdded = 0

\* the inputs the model counts, to bound their number
IsBig(in) == estimateTokens(in.len) >= ToolThreshold

add(in) ==
    /\ adds < MaxAdds
    /\ IsBig(in) => bigAdded < MaxBig
    /\ adds' = adds + 1
    /\ bigAdded' = IF IsBig(in) THEN bigAdded + 1 ELSE bigAdded
    /\ pushed' = Append(messages, Tracked(adds', in.role, TextContent(adds', in.len)))
    /\ truncated' = CompactSteps(pushed', maxTokens, -adds').pass1
    /\ messages' = compactIfNeeded(pushed', maxTokens, -adds')
    /\ lastAdd' = AddOutcome
    /\ UNCHANGED maxTokens

Add == \E in \in Inputs : add(in) /\ UNCHANGED <<restVars, storeVars, guideVars, toolVars>>

-----------------------------------------------------------------------------
(* Text: a string is the sequence of its character codes *)

T_dark_mode == <<100, 97, 114, 107, 32, 109, 111, 100, 101>>
T_Dark_Mode == <<68, 97, 114, 107, 32, 77, 111, 100, 101>>
T_deploy_app == <<100, 101, 112, 108, 111, 121, 32, 97, 112, 112>>
T_a == <<97>>
T_dark == <<100, 97, 114, 107>>
T_deploy == <<100, 101, 112, 108, 111, 121>>
T_hello == <<104, 101, 108, 108, 111>>

IsSpace(c) == c \in {9, 10, 13, 32}

toLowerCase(t) ==
    [i \in 1..Len(t) |-> IF t[i] >= 65 /\ t[i] <= 90 THEN t[i] + 32 ELSE t[i]]

RECURSIVE trimStart(_)
trimStart(t) ==
    IF t # <<>> /\ IsSpace(Head(t)) THEN trimStart(Tail(t)) ELSE t

RECURSIVE trimEnd(_)
trimEnd(t) ==
    IF t # <<>> /\ IsSpace(t[Len(t)]) THEN trimEnd(SubSeq(t, 1, Len(t) - 1)) ELSE t

trim(t) == trimEnd(trimStart(t))

\* split(/\s+/): cur is the piece being read, inGap whether the last
\* character read belonged to a separator
RECURSIVE SplitFrom(_, _, _)
SplitFrom(t, cur, inGap) ==
    IF t = <<>> THEN <<cur>>
    ELSE IF IsSpace(Head(t))
         THEN IF inGap THEN SplitFrom(Tail(t), cur, TRUE)
              ELSE <<cur>> \o SplitFrom(Tail(t), <<>>, TRUE)
         ELSE SplitFrom(Tail(t), Append(cur, Head(t)), FALSE)

splitWhitespace(t) == SplitFrom(t, <<>>, FALSE)

-----------------------------------------------------------------------------
(* Utilities *)

Half == 65536

\* h = ((h << 5) - h + c) | 0 on a 32-bit word kept as two 16-bit halves
HashStep(w, c) ==
    LET t == w.lo * 31 + c
    IN  [lo |-> t % Half, hi |-> (w.hi * 31 + t \div Half) % Half]

RECURSIVE HashWord(_, _)
HashWord(str, w) ==
    IF str = <<>> THEN w ELSE HashWord(Tail(str), HashStep(w, Head(str)))

\* the word read as a signed 32-bit integer
Signed(w) ==
    IF w.hi >= Half \div 2 THEN (w.hi - Half) * Half + w.lo ELSE w.hi * Half + w.lo

hash(str) == Signed(HashWord(str, [hi |-> 0, lo |-> 0]))

Abs(x) == IF x < 0 THEN -x ELSE x

\* the sum of a[k] * b[k] for k in lo .. hi, by halves
RECURSIVE DotRange(_, _, _, _)
DotRange(a, b, lo, hi) ==
    IF lo > hi THEN 0
    ELSE IF lo = hi THEN a[lo] * b[lo]
    ELSE LET mid == (lo + hi) \div 2
         IN  DotRange(a, b, lo, mid) + DotRange(a, b, mid + 1, hi)

Dot(a, b, i) == DotRange(a, b, 0, i)

\* floor of the square root, by bisection of lo .. hi with lo * lo <= n
RECURSIVE SqrtIn(_, _, _)
SqrtIn(n, lo, hi) ==
    IF hi - lo <= 1 THEN lo
    ELSE LET mid == (lo + hi) \div 2
         IN  IF mid * mid <= n THEN SqrtIn(n, mid, hi) ELSE SqrtIn(n, lo, mid)

Sqrt(n) == SqrtIn(n, 0, 46341)

-----------------------------------------------------------------------------
(* LongTermMemory *)

\* createHash('sha256').update(content).digest('hex').slice(0, 12), as
\* SHA-256 gives it for the contents of the model
Sha12(content) ==
    CASE content = T_dark_mode -> "ddf377084a32"
      [] content = T_Dark_Mode -> "df8c7c89b3e4"
      [] content = T_deploy_app -> "bb1543bc4857"
      [] content = T_a -> "ca978112ca1b"
      [] content = <<>> -> "e3b0c44298fc"

\* one feature: the slot of vec it is added to and the amount
Feature(str, weight) ==
    [slot |-> Abs(hash(str)) % dimension,
     amount |-> (IF hash(str) > 0 THEN 1 ELSE -1) * weight]

Trigrams(t) == [i \in 1..(IF Len(t) > 2 THEN Len(t) - 2 ELSE 0) |-> SubSeq(t, i, i + 2)]

RECURSIVE WordFeatures(_)
WordFeatures(words) ==
    IF words = <<>> THEN <<>>
    ELSE IF Len(Head(words)) < 2 THEN WordFeatures(Tail(words))
         ELSE <<Feature(Head(words), 2)>> \o WordFeatures(Tail(words))

RECURSIVE Accumulate(_, _)
Accumulate(features, slot) ==
    IF features = <<>> THEN 0
    ELSE (IF Head(features).slot = slot THEN Head(features).amount ELSE 0)
         + Accumulate(Tail(features), slot)

\* The vector embed() returns is num / sqrt(den2): num is the accumulator
\* before normalisation, den2 the squared magnitude it was divided by (1
\* when the magnitude was 0 and nothing was divided).
embed(text) ==
    LET normalized == trim(toLowerCase(text))
        tri == Trigrams(normalized)
        features == [i \in 1..Len(tri) |-> Feature(tri[i], 1)]
                    \o WordFeatures(splitWhitespace(normalized))
        vec == [k \in 0..(dimension - 1) |-> Accumulate(features, k)]
        mag2 == Dot(vec, vec, dimension - 1)
    IN  [num |-> vec, den2 |-> IF mag2 > 0 THEN mag2 ELSE 1]

\* the number of floats of a vector
Length(v) == Cardinality(DOMAIN v.num)

\* new Float32Array(buffer, byteOffset, n): the first n floats of the blob
Float32View(embedding, n) ==
    [num |-> [k \in 0..(n - 1) |-> embedding.num[k]], den2 |-> embedding.den2]

\* cosineSimilarity in thousandths: dot / (magA * magB) of the two vectors
\* num / sqrt(den2), or 0 when a magnitude is 0; the loop runs over a.length
\* and the lengths are not compared
cosineSimilarity(a, b) ==
    LET dot == Dot(a.num, b.num, Length(a) - 1)
        sqA == Dot(a.num, a.num, Length(a) - 1)
        sqB == Dot(b.num, b.num, Length(a) - 1)
    IN  IF sqA = 0 \/ sqB = 0 THEN 0
        ELSE (dot * 100000) \div Sqrt(sqA * sqB * 10000)

\* sim * 0.8 + importance * 0.2 in ten-thousandths (importance in hundredths)
Boosted(sim1000, importance100) ==
    sim1000 * SimWeight10 + importance100 * 10 * ImportanceWeight10

Row(id, content, type, source, importance, t) ==
    [id |-> id, content |-> content, embedding |-> embed(content),
     type |-> type, source |-> source, importance |-> importance,
     created_at |-> t, access_count |-> 0, last_accessed |-> t]

InsertOnly(rows, row) == Append(rows, row)

\* the history hits; seen: a search has returned the row, at: when it last did
NeverHit == [count |-> 0, seen |-> FALSE, at |-> 0]

Written(h, id) ==
    [x \in DOMAIN h \cup {id} |->
        IF x = id
        THEN IF id \in DOMAIN h THEN [h[id] EXCEPT !.count = 0] ELSE NeverHit
        ELSE h[x]]

Hit(h, ids, t) ==
    [x \in DOMAIN h |->
        IF x \in ids THEN [count |-> h[x].count + 1, seen |-> TRUE, at |-> t]
        ELSE h[x]]

Remaining(h, rows) == [x \in {rows[i].id : i \in DOMAIN rows} |-> h[x]]

\* INSERT OR REPLACE: the rows in conflict on the primary key are deleted
\* and the new row is appended
InsertOrReplace(rows, row) ==
    LET Other(r) == r.id # row.id
    IN  Append(SelectSeq(rows, Other), row)

storeKeepingStats(content, type, source, importance) ==
    LET id == Sha12(content)
        Same(r) == r.id = id
        old == SelectSeq(memories, Same)
        new == Row(id, content, type, source, importance, now)
    IN  /\ memories' = InsertOrReplace(memories,
                          IF old = <<>> THEN new
                          ELSE [new EXCEPT !.access_count = old[1].access_count])
        /\ replaced' = old
        /\ ret' = [op |-> "store", content |-> content, type |-> type,
                   source |-> source, importance |-> importance, id |-> id]
        /\ hits' = Written(hits, id)
        /\ UNCHANGED <<dimension, now>>

store(content, type, source, importance) ==
    LET id == Sha12(content)
        Same(r) == r.id = id
    IN  /\ memories' = InsertOrReplace(memories, Row(id, content, type, source, importance, now))
        /\ replaced' = SelectSeq(memories, Same)
        /\ ret' = [op |-> "store", content |-> content, type |-> type,
                   source |-> source, importance |-> importance, id |-> id]
        /\ hits' = Written(hits, id)
        /\ UNCHANGED <<dimension, now>>

Record(row) ==
    [id |-> row.id, content |-> row.content, type |-> row.type,
     source |-> row.source, importance |-> row.importance,
     createdAt |-> row.created_at, accessCount |-> row.access_count]

\* Array.prototype.sort with (a, b) => b.similarity - a.similarity is stable:
\* insertion from the right keeps equal scores in their order
RECURSIVE InsertSorted(_, _)
InsertSorted(r, sorted) ==
    IF sorted = <<>> THEN <<r>>
    ELSE IF Head(sorted).similarity > r.similarity
         THEN <<Head(sorted)>> \o InsertSorted(r, Tail(sorted))
         ELSE <<r>> \o sorted

RECURSIVE SortDesc(_)
SortDesc(s) ==
    IF s = <<>> THEN <<>> ELSE InsertSorted(Head(s), SortDesc(Tail(s)))

RankedUnsorted(rows, query, limit, minSimilarity) ==
    LET queryEmbedding == embed(query)
        scored == [i \in 1..Len(rows) |->
                    [record |-> Record(rows[i]),
                     similarity |-> Boosted(cosineSimilarity(queryEmbedding,
                                                Float32View(rows[i].embedding, dimension)),
                                            rows[i].importance)]]
        Passes(r) == r.similarity >= minSimilarity
        passing == SelectSeq(scored, Passes)
    IN  SubSeq(passing, 1, Min(limit, Len(passing)))

Ranked(rows, query, limit, minSimilarity) ==
    LET queryEmbedding == embed(query)
        scored == [i \in 1..Len(rows) |->
                    [record |-> Record(rows[i]),
                     similarity |-> Boosted(cosineSimilarity(queryEmbedding,
                                                Float32View(rows[i].embedding, dimension)),
                                            rows[i].importance)]]
        Passes(r) == r.similarity >= minSimilarity
        sorted == SortDesc(SelectSeq(scored, Passes))
    IN  SubSeq(sorted, 1, Min(limit, Len(sorted)))

TouchCountOnly(rows, ids, t) ==
    [i \in 1..Len(rows) |->
        IF rows[i].id \in ids
        THEN [rows[i] EXCEPT !.access_count = @ + 1]
        ELSE rows[i]]

TouchSetsOne(rows, ids, t) ==
    [i \in 1..Len(rows) |->
        IF rows[i].id \in ids
        THEN [rows[i] EXCEPT !.access_count = 1, !.last_accessed = t]
        ELSE rows[i]]

TouchAll(rows, ids, t) ==
    [i \in 1..Len(rows) |->
        [rows[i] EXCEPT !.access_count = @ + 1, !.last_accessed = t]]

Touch(rows, ids, t) ==
    [i \in 1..Len(rows) |->
        IF rows[i].id \in ids
        THEN [rows[i] EXCEPT !.access_count = @ + 1, !.last_accessed = t]
        ELSE rows[i]]

\* a blob shorter than dimension floats: the Float32Array constructor throws
\* a RangeError while the rows are scored, before any row is updated
ShortBlob(rows) == \E i \in DOMAIN rows : Length(rows[i].embedding) < dimension

search(query, limit, minSimilarity) ==
    LET results == IF ShortBlob(memories) THEN <<>>
                   ELSE Ranked(memories, query, limit, minSimilarity)
    IN  /\ memories' = Touch(memories, {results[i].record.id : i \in 1..Len(results)}, now)
        /\ ret' = [op |-> "search", query |-> query, limit |-> limit,
                   minSimilarity |-> minSimilarity, results |-> results,
                   threw |-> ShortBlob(memories)]
        /\ hits' = Hit(hits, {results[i].record.id : i \in 1..Len(results)}, now)
        /\ UNCHANGED <<dimension, now, replaced>>

\* what getAll() may return: the records by importance descending, rows of
\* equal importance in any order
IsSortedByImportance(recs) ==
    \A i \in 1..(Len(recs) - 1) : recs[i].importance >= recs[i + 1].importance

Orderings(n) ==
    {f \in [1..n -> 1..n] : \A i, j \in 1..n : i # j => f[i] # f[j]}

getAll ==
    {recs \in {[i \in 1..Len(memories) |-> Record(memories[f[i]])] :
                  f \in Orderings(Len(memories))} :
        IsSortedByImportance(recs)}

delete(id) ==
    LET Other(r) == r.id # id
    IN  /\ memories' = SelectSeq(memories, Other)
        /\ ret' = [op |-> "delete", id |-> id,
                   changed |-> Len(memories') < Len(memories)]
        /\ hits' = Remaining(hits, memories')
        /\ UNCHANGED <<dimension, now, replaced>>

decayAnyCondition(arguments) ==
    LET maxAgeDays == IF Len(arguments) >= 1 THEN arguments[1] ELSE DefaultMaxAgeDays
        cutoff == now - maxAgeDays * MsPerDay
        Stays(r) == ~(\/ r.last_accessed < cutoff
                      \/ r.importance < ImportanceFloor100
                      \/ r.access_count < AccessFloor)
    IN  /\ memories' = SelectSeq(memories, Stays)
        /\ ret' = [op |-> "decay", arguments |-> arguments,
                   changes |-> Len(memories) - Len(memories')]
        /\ hits' = Remaining(hits, memories')
        /\ UNCHANGED <<dimension, now, replaced>>

decayInclusive(arguments) ==
    LET maxAgeDays == IF Len(arguments) >= 1 THEN arguments[1] ELSE DefaultMaxAgeDays
        cutoff == now - maxAgeDays * MsPerDay
        Stays(r) == ~(/\ r.last_accessed <= cutoff
                      /\ r.importance < ImportanceFloor100
                      /\ r.access_count < AccessFloor)
    IN  /\ memories' = SelectSeq(memories, Stays)
        /\ ret' = [op |-> "decay", arguments |-> arguments,
                   changes |-> Len(memories) - Len(memories')]
        /\ hits' = Remaining(hits, memories')
        /\ UNCHANGED <<dimension, now, replaced>>

\* decay(maxAgeDays = 90) as JavaScript calls it: the first argument when
\* there is one, the default otherwise, any further argument dropped
decay(arguments) ==
    LET maxAgeDays == IF Len(arguments) >= 1 THEN arguments[1] ELSE DefaultMaxAgeDays
        cutoff == now - maxAgeDays * MsPerDay
        Stays(r) == ~(/\ r.last_accessed < cutoff
                      /\ r.importance < ImportanceFloor100
                      /\ r.access_count < AccessFloor)
    IN  /\ memories' = SelectSeq(memories, Stays)
        /\ ret' = [op |-> "decay", arguments |-> arguments,
                   changes |-> Len(memories) - Len(memories')]
        /\ hits' = Remaining(hits, memories')
        /\ UNCHANGED <<dimension, now, replaced>>

Open(dim) ==
    /\ memories = <<>>
    /\ dimension = dim
    /\ now = MsPerDay
    /\ ret = [op |-> "open"]
    /\ replaced = <<>>
    /\ hits = <<>>
    /\ ops = 0

\* new LongTermMemory(dbPath, dim) and initialize() on the file of the
\* store: CREATE TABLE IF NOT EXISTS keeps the rows there are
Reopen(dim) ==
    /\ dimension' = dim
    /\ ret' = [op |-> "open"]
    /\ UNCHANGED <<memories, now, replaced, hits>>

\* Date.now() moves on between two calls
Tick(d) ==
    /\ now' = now + d
    /\ UNCHANGED <<memories, dimension, ret, replaced, hits>>

(* Inputs *)

Dimensions == {16}
StoreRequests ==
    { [content |-> T_dark_mode, type |-> "preference", source |-> "s1", importance |-> 90],
      [content |-> T_dark_mode, type |-> "fact", source |-> "s2", importance |-> 50],
      [content |-> T_Dark_Mode, type |-> "note", source |-> "s1", importance |-> 50],
      [content |-> T_deploy_app, type |-> "procedure", source |-> "s1", importance |-> 50] }
SearchRequests ==
    { [query |-> T_dark, limit |-> 2, minSimilarity |-> 1000],
      [query |-> T_deploy, limit |-> 1, minSimilarity |-> 1000],
      [query |-> T_dark_mode, limit |-> 5, minSimilarity |-> 8500] }
DeleteRequests == {"ddf377084a32"}
\* the last request passes floors as well: importance 1.0 and an access
\* count no record reaches
DecayRequests == {<<0>>, <<1>>, <<0, 100, 1000000>>}
\* a millisecond, and a millisecond more than a day
Elapsed == {1, MsPerDay + 1}

\* one more call or clock advance, while the model's bound allows it
Step == ops < MaxOps /\ ops' = ops + 1 /\ UNCHANGED <<restVars, bufferVars, guideVars, toolVars>>

Store ==
    /\ Step
    /\ \E q \in StoreRequests : store(q.content, q.type, q.source, q.importance)

Search ==
    /\ Step
    /\ \E q \in SearchRequests : search(q.query, q.limit, q.minSimilarity)

Delete == Step /\ \E id \in DeleteRequests : delete(id)

Decay == Step /\ \E arguments \in DecayRequests : decay(arguments)

Advance == Step /\ \E d \in Elapsed : Tick(d)

(* Longer runs of the store over fewer inputs: records of importance below
   the floor, searched often enough to reach the access floor *)

LowStoreRequests ==
    { [content |-> T_Dark_Mode, type |-> "note", source |-> "s1", importance |-> 50],
      [content |-> T_deploy_app, type |-> "procedure", source |-> "s1", importance |-> 50] }
LowSearchRequests ==
    { [query |-> T_dark, limit |-> 2, minSimilarity |-> 1000],
      [query |-> T_deploy, limit |-> 1, minSimilarity |-> 1000] }
AgeRequests == {<<0>>, <<1>>}

Turn == ops < MaxTouches /\ ops' = ops + 1 /\ UNCHANGED <<restVars, bufferVars, guideVars, toolVars>>

StoreLow ==
    /\ Turn
    /\ \E q \in LowStoreRequests : store(q.content, q.type, q.source, q.importance)

SearchLow ==
    /\ Turn
    /\ \E q \in LowSearchRequests : search(q.query, q.limit, q.minSimilarity)

DecayLow == Turn /\ \E arguments \in AgeRequests : decay(arguments)

Wait == Turn /\ \E d \in Elapsed : Tick(d)

(* Inputs of any value the signatures accept, and a second dimension *)

AnyStoreRequests ==
    { [content |-> <<>>, type |-> "note", source |-> "s1", importance |-> 50],
      [content |-> T_a, type |-> "note", source |-> "s1", importance |-> 50],
      [content |-> T_dark_mode, type |-> "fact", source |-> "s1", importance |-> 200],
      [content |-> T_dark_mode, type |-> "fact", source |-> "s1", importance |-> -50],
      [content |-> T_deploy_app, type |-> "procedure", source |-> "s1", importance |-> 100] }
AnySearchRequests ==
    { [query |-> T_dark_mode, limit |-> 5, minSimilarity |-> 11000],
      [query |-> T_deploy, limit |-> 5, minSimilarity |-> 1000],
      [query |-> T_a, limit |-> 5, minSimilarity |-> 1000] }
ReopenDimensions == {8, 16}

Call == ops < MaxCalls /\ ops' = ops + 1 /\ UNCHANGED <<restVars, bufferVars, guideVars, toolVars>>

StoreAny ==
    /\ Call
    /\ \E q \in AnyStoreRequests : store(q.content, q.type, q.source, q.importance)

SearchAny ==
    /\ Call
    /\ \E q \in AnySearchRequests : search(q.query, q.limit, q.minSimilarity)

ReopenAny == Call /\ \E dim \in ReopenDimensions : Reopen(dim)

-----------------------------------------------------------------------------
(* Agent.run of the template (templates/basic-agent/src/index.ts), over the
   template's ShortTermMemory and LongTermMemory *)

RunSearchLimit == 3
RunMinSimilarity == 1000
ContextHeaderLen == 34

\* the length of a record type, as the context line prints it
TypeLen(type) ==
    CASE type = "preference" -> 10
      [] type = "procedure" -> 9
      [] OTHER -> 4

\* the length of memories.map(m => `- [${type}] ${content}`).join('\n')
RECURSIVE ContextLen(_)
ContextLen(results) ==
    IF results = <<>> THEN 0
    ELSE 5 + TypeLen(Head(results).record.type) + Len(Head(results).record.content)
           + (IF Tail(results) = <<>> THEN 0 ELSE 1 + ContextLen(Tail(results)))

\* this.messages after memory.add(in), in being the message of identity id
Added(msgs, id, in, max) ==
    CompactSteps(Append(msgs, Tracked(id, in.role, TextContent(id, in.len))), max, -id)

\* run(userMessage), on the path of a reply without tool calls: the user turn
\* is added, the store is searched, the context turn is added when the search
\* found records, the model is given getMessages(), and its reply is added.
\* ret keeps the buffer before the context was built (snapshot), the records
\* found, the buffer when the model is called (buffer) and the turns the
\* model is given (context).
run(userMessage, reply) ==
    LET user == Added(messages, adds + 1,
                      [role |-> "user", len |-> Len(userMessage)], maxTokens)
        found == IF ShortBlob(memories) THEN <<>>
                 ELSE Ranked(memories, userMessage, RunSearchLimit, RunMinSimilarity)
        system == IF found = <<>> THEN user
                  ELSE Added(user.result, adds + 2,
                             [role |-> "system",
                              len |-> ContextHeaderLen + ContextLen(found)], maxTokens)
        last == Added(system.result, adds + 3, reply, maxTokens)
    IN  /\ adds + 3 <= MaxAdds
        /\ memories' = Touch(memories, {found[i].record.id : i \in 1..Len(found)}, now)
        /\ hits' = Hit(hits, {found[i].record.id : i \in 1..Len(found)}, now)
        /\ ret' = [op |-> "run", userMessage |-> userMessage,
                   threw |-> ShortBlob(memories),
                   snapshot |-> user.result, results |-> found,
                   buffer |-> system.result,
                   context |-> getMessages(system.result)]
        /\ messages' = IF ShortBlob(memories) THEN user.result ELSE last.result
        /\ truncated' = IF ShortBlob(memories) THEN user.pass1 ELSE last.pass1
        /\ pushed' = IF ShortBlob(memories)
                     THEN Append(messages, Tracked(adds + 1, "user",
                                                   TextContent(adds + 1, Len(userMessage))))
                     ELSE Append(system.result,
                                 Tracked(adds + 3, reply.role, TextContent(adds + 3, reply.len)))
        /\ adds' = adds + 3
        /\ lastAdd' = AddOutcome
        /\ UNCHANGED <<maxTokens, bigAdded, dimension, now, replaced>>

RunMessages == {T_dark, T_hello}
Replies == {[role |-> "assistant", len |-> 40]}

Run ==
    /\ ops < MaxOps /\ ops' = ops + 1 /\ UNCHANGED <<restVars, guideVars, toolVars>>
    /\ \E userMessage \in RunMessages, reply \in Replies : run(userMessage, reply)

-----------------------------------------------------------------------------
(* Agent.run with its loop: one step per pass of while (iterations <
   MAX_ITERATIONS).  A pass calls the model once; the call returns a final
   reply, returns tool calls, or throws an error that isRetryableError()
   takes or does not take for retryable. *)

DefaultMaxIterations == 15
\* `Error occurred: ${errorMsg}. Try a different approach.`
ErrorNote == [role |-> "system", len |-> 60]
\* the message of the model's reply, as extractContent() reads it
Reply == [role |-> "assistant", len |-> 40]
ToolResultLens == {200000}
ToolCallCounts == {1, 2}
MaxIterationsChoices == {2, 6}
LoopMessages == {T_dark}
Outcomes == {"reply", "tools", "retryable", "error"}

Agent(maxIterations) ==
    /\ MAX_ITERATIONS = maxIterations
    /\ pc = "idle"
    /\ iterations = 0
    /\ modelCalls = 0
    /\ returned = "nothing"
    /\ origin = <<>>

\* this.memory after memory.add() of each message of ins in turn
RECURSIVE AddAll(_, _, _)
AddAll(buffer, ins, max) ==
    IF ins = <<>> THEN buffer
    ELSE LET id == buffer.adds + 1
             grown == Append(buffer.result,
                             Tracked(id, Head(ins).role, TextContent(id, Head(ins).len)))
             steps == CompactSteps(grown, max, -id)
         IN  AddAll([result |-> steps.result, pass1 |-> steps.pass1,
                     pushed |-> grown, adds |-> id], Tail(ins), max)

Buffer == [result |-> messages, pass1 |-> truncated, pushed |-> pushed, adds |-> adds]

Becomes(buffer) ==
    /\ messages' = buffer.result
    /\ truncated' = buffer.pass1
    /\ pushed' = buffer.pushed
    /\ adds' = buffer.adds
    /\ lastAdd' = AddOutcome
    /\ UNCHANGED <<maxTokens, bigAdded>>

CountedUnlessRetried(n, outcome) == IF outcome = "retryable" THEN n ELSE n + 1

\* iterations++ is the first statement of the loop body, outside the try
Counted(n, outcome) == n + 1

\* the statements of run() before the loop
Begin(userMessage) ==
    LET found == Ranked(memories, userMessage, RunSearchLimit, RunMinSimilarity)
        ins == <<[role |-> "user", len |-> Len(userMessage)]>>
               \o (IF found = <<>> THEN <<>>
                   ELSE <<[role |-> "system",
                           len |-> ContextHeaderLen + ContextLen(found)]>>)
    IN  /\ pc = "idle"
        /\ ~ShortBlob(memories)
        /\ Becomes(AddAll(Buffer, ins, maxTokens))
        /\ memories' = Touch(memories, {found[i].record.id : i \in 1..Len(found)}, now)
        /\ hits' = Hit(hits, {found[i].record.id : i \in 1..Len(found)}, now)
        /\ ret' = [op |-> "search", query |-> userMessage, limit |-> RunSearchLimit,
                   minSimilarity |-> RunMinSimilarity, results |-> found,
                   threw |-> FALSE]
        /\ pc' = "loop"
        /\ iterations' = 0
        /\ modelCalls' = 0
        /\ returned' = "nothing"
        /\ UNCHANGED <<MAX_ITERATIONS, origin, dimension, now, replaced, ops>>

\* one pass of the loop body
Pass(outcome, toolCalls, resultLen) ==
    LET assistant == Reply
        results == [k \in 1..toolCalls |-> [role |-> "tool", len |-> resultLen]]
        ins == CASE outcome = "reply" -> <<assistant>>
                 [] outcome = "tools" -> <<assistant>> \o results
                 [] outcome = "error" -> <<ErrorNote>>
                 [] OTHER -> <<>>
    IN  /\ pc = "loop"
        /\ iterations < MAX_ITERATIONS
        /\ iterations' = Counted(iterations, outcome)
        /\ modelCalls' = modelCalls + 1
        /\ IF ins = <<>>
           THEN UNCHANGED bufferVars
           ELSE Becomes(AddAll(Buffer, ins, maxTokens))
        /\ origin' = IF outcome = "tools"
                     THEN [id \in DOMAIN origin \cup ((adds + 2)..(adds + 1 + toolCalls)) |->
                              IF id \in DOMAIN origin THEN origin[id] ELSE adds + 1]
                     ELSE origin
        /\ pc' = IF outcome = "reply" THEN "idle" ELSE "loop"
        /\ returned' = IF outcome = "reply" THEN "content" ELSE returned
        /\ UNCHANGED <<MAX_ITERATIONS, storeVars>>

\* the loop ends without a final reply
GiveUp ==
    /\ pc = "loop"
    /\ iterations >= MAX_ITERATIONS
    /\ pc' = "idle"
    /\ returned' = "unable"
    /\ UNCHANGED <<MAX_ITERATIONS, iterations, modelCalls, origin, bufferVars, storeVars>>

\* Agent.remember(content, 'note')
RememberedImportance == 70

Remember ==
    /\ pc = "idle"
    /\ memories = <<>>
    /\ store(T_dark_mode, "note", "session", RememberedImportance)
    /\ UNCHANGED <<ops, loopVars, bufferVars>>

\* the model follows the run() calls that begin on a buffer that fewer than
\* MaxEarlierAdds add() calls have written
BeginRun ==
    /\ adds < MaxEarlierAdds
    /\ \E userMessage \in LoopMessages : Begin(userMessage)
    /\ UNCHANGED <<guideVars, toolVars, mainVars, breakerVars>>

Iterate ==
    /\ \E outcome \in Outcomes, toolCalls \in ToolCallCounts, resultLen \in ToolResultLens :
          Pass(outcome, toolCalls, resultLen)
    /\ UNCHANGED <<guideVars, toolVars, mainVars, breakerVars>>

Exhaust == GiveUp /\ UNCHANGED <<guideVars, toolVars, mainVars, breakerVars>>

RememberNote == Remember /\ UNCHANGED <<guideVars, toolVars, mainVars, breakerVars>>

-----------------------------------------------------------------------------
(* The guide's memories (guide/03-memory.md): ShortTermMemory,
   LongTermMemory, EpisodicMemory and AgentMemory over them.  Times are in
   hours: every clock advance of the model is a whole number of hours.  A
   score is in ten-thousandths, as above. *)

GuideMaxTokens == 100000
EmbeddingDimension == 384
RecencyHours == 720
DecayHours == 2160
GuideImportanceFloor100 == 80
GuideAccessFloor == 3
GuideSimWeight10 == 7
GuideImportanceWeight10 == 2
GuideRecencyWeight10 == 1
DefaultSearchLimit == 10
DefaultMinSimilarity == 3000
DedupSimilarity == 8500
ContextMemories == 5
ContextEpisodes == 3
ContextLessons == 10

(* ShortTermMemory of the guide *)

classifyImportance(role) ==
    CASE role = "system" -> "high"
      [] role = "user" -> "high"
      [] role = "tool" -> "low"
      [] OTHER -> "medium"

GuideMessage(role, content, t) ==
    [role |-> role, content |-> content, timestamp |-> t,
     metadata |-> [tokenEstimate |-> estimateTokens(Len(content)),
                   importance |-> classifyImportance(role)]]

RECURSIVE getTotalTokens(_)
getTotalTokens(msgs) ==
    IF msgs = <<>> THEN 0
    ELSE Head(msgs).metadata.tokenEstimate + getTotalTokens(Tail(msgs))

\* getMessages(): [...this.messages], the same message objects in a new array
shortTermGetMessages(msgs) == msgs

\* getForAPI(): new objects holding role and content (no message of the
\* model has a toolCallId)
getForAPI(msgs) ==
    [i \in 1..Len(msgs) |-> [role |-> msgs[i].role, content |-> msgs[i].content]]

\* add(): push, then compact(), which returns at its first test while the
\* total is within maxTokens; the turns of the model never exceed it
shortTermAdd(msgs, role, content, t) == Append(msgs, GuideMessage(role, content, t))

WithinBudget(msgs) == getTotalTokens(msgs) <= GuideMaxTokens

(* LongTermMemory of the guide *)

Sha16(content) ==
    CASE content = T_dark_mode -> "ddf377084a322427"
      [] content = T_Dark_Mode -> "df8c7c89b3e4cfb1"
      [] content = T_deploy_app -> "bb1543bc48571c04"
      [] content = T_dark -> "e6bb5689beec52c4"
      [] content = T_deploy -> "b7bd55c11b781b0c"
      [] content = T_hello -> "2cf24dba5fb0a30e"

simpleHash(str) == hash(str)

GuideFeature(str, weight) ==
    [slot |-> Abs(simpleHash(str)) % EmbeddingDimension,
     amount |-> (IF simpleHash(str) > 0 THEN 1 ELSE -1) * weight]

\* every word of the split counts, the empty one of an empty text included
localEmbedding(text) ==
    LET normalized == trim(toLowerCase(text))
        tri == Trigrams(normalized)
        words == splitWhitespace(normalized)
        features == [i \in 1..Len(tri) |-> GuideFeature(tri[i], 1)]
                    \o [i \in 1..Len(words) |-> GuideFeature(words[i], 2)]
        vec == [k \in 0..(EmbeddingDimension - 1) |-> Accumulate(features, k)]
        mag2 == Dot(vec, vec, EmbeddingDimension - 1)
    IN  [num |-> vec, den2 |-> IF mag2 > 0 THEN mag2 ELSE 1]

\* the guide's cosineSimilarity, in thousandths: it throws when the lengths differ
guideCosineSimilarity(a, b) ==
    IF Length(a) # Length(b) THEN [threw |-> TRUE, value |-> 0]
    ELSE [threw |-> FALSE, value |-> cosineSimilarity(a, b)]

GuideRow(content, type, source, importance, embedding, t) ==
    [id |-> Sha16(content), content |-> content, embedding |-> embedding,
     type |-> type, source |-> source, created_at |-> t, access_count |-> 0,
     last_accessed |-> t, importance |-> importance]

\* the MemoryEntry of a row; its embedding field, which nothing reads, is left out
Entry(row) ==
    [id |-> row.id, content |-> row.content,
     metadata |-> [type |-> row.type, source |-> row.source,
                   createdAt |-> row.created_at, accessCount |-> row.access_count,
                   lastAccessed |-> row.last_accessed, importance |-> row.importance]]

\* Math.max(0, 1 - (Date.now() - last_accessed) / 30 days), in thousandths
recencyBoost(row, t) == Max(0, 1000 - ((t - row.last_accessed) * 1000) \div RecencyHours)

boostedSimilarity(sim1000, row, t) ==
    sim1000 * GuideSimWeight10 + row.importance * 10 * GuideImportanceWeight10
        + recencyBoost(row, t) * GuideRecencyWeight10


\* longTermStoreRowFirst is longTermStore writing the row before the
\* embedding is awaited, and the embedding into it afterwards
longTermStoreRowFirst(rows, content, type, source, importance, t, embedding, isClosed) ==
    IF isClosed THEN [threw |-> TRUE, rows |-> rows]
    ELSE IF embedding = "throws"
    THEN [threw |-> TRUE,
          rows |-> InsertOrReplace(rows,
                      GuideRow(content, type, source, importance,
                               [num |-> <<>>, den2 |-> 1], t))]
    ELSE [threw |-> FALSE,
          rows |-> InsertOrReplace(rows,
                      GuideRow(content, type, source, importance, localEmbedding(content), t))]

\* store(): the id, then await getEmbedding(content), then INSERT OR REPLACE
\* (access_count takes its default 0).  embedding is how the await ended:
\* "returns" with the vector, "throws" when the request or its answer fails.
\* A closed database makes db.prepare throw.
longTermStore(rows, content, type, source, importance, t, embedding, isClosed) ==
    IF embedding = "throws" \/ isClosed
    THEN [threw |-> TRUE, rows |-> rows]
    ELSE [threw |-> FALSE,
          rows |-> InsertOrReplace(rows,
                      GuideRow(content, type, source, importance, localEmbedding(content), t))]

\* search(): await getEmbedding(query), SELECT *, score, filter, sort, slice,
\* then one UPDATE per result
longTermSearch(rows, query, limit, minSimilarity, t, embedding, isClosed) ==
    LET queryEmbedding == localEmbedding(query)
        Cos(i) == guideCosineSimilarity(queryEmbedding, rows[i].embedding)
        scored == [i \in 1..Len(rows) |->
                    [entry |-> Entry(rows[i]),
                     similarity |-> boostedSimilarity(Cos(i).value, rows[i], t)]]
        Passes(r) == r.similarity >= minSimilarity
        sorted == SortDesc(SelectSeq(scored, Passes))
        results == SubSeq(sorted, 1, Min(limit, Len(sorted)))
    IN  IF embedding = "throws" \/ isClosed \/ \E i \in DOMAIN rows : Cos(i).threw
        THEN [threw |-> TRUE, results |-> <<>>, rows |-> rows]
        ELSE [threw |-> FALSE, results |-> results,
              rows |-> Touch(rows, {results[i].entry.id : i \in DOMAIN results}, t)]

\* decay(maxAge): DELETE ... WHERE last_accessed < cutoff AND importance < 0.8
\* AND access_count < 3
longTermDecay(rows, maxAge, t, isClosed) ==
    LET cutoff == t - maxAge
        Stays(r) == ~(/\ r.last_accessed < cutoff
                      /\ r.importance < GuideImportanceFloor100
                      /\ r.access_count < GuideAccessFloor)
    IN  IF isClosed THEN [threw |-> TRUE, changes |-> 0, rows |-> rows]
        ELSE [threw |-> FALSE,
              changes |-> Len(rows) - Len(SelectSeq(rows, Stays)),
              rows |-> SelectSeq(rows, Stays)]

(* EpisodicMemory of the guide *)

RECURSIVE Flatten(_)
Flatten(ss) == IF ss = <<>> THEN <<>> ELSE Head(ss) \o Flatten(Tail(ss))

\* JSON.stringify of an array of strings: ["a","b"]
JsonArray(texts) ==
    <<91>> \o Flatten([i \in 1..Len(texts) |->
                          (IF i > 1 THEN <<44>> ELSE <<>>) \o <<34>> \o texts[i] \o <<34>>])
           \o <<93>>

\* text LIKE '%query%': ASCII letters compare without case (no query of the
\* model holds a wildcard)
Like(text, query) ==
    \E i \in 1..(Len(text) - Len(query) + 1) :
        toLowerCase(SubSeq(text, i, i + Len(query) - 1)) = toLowerCase(query)

\* ORDER BY started_at DESC, rows of equal started_at in rowid order
RECURSIVE InsertByStart(_, _)
InsertByStart(r, sorted) ==
    IF sorted = <<>> THEN <<r>>
    ELSE IF Head(sorted).started_at > r.started_at
         THEN <<Head(sorted)>> \o InsertByStart(r, Tail(sorted))
         ELSE <<r>> \o sorted

RECURSIVE ByStartDesc(_)
ByStartDesc(s) ==
    IF s = <<>> THEN <<>> ELSE InsertByStart(Head(s), ByStartDesc(Tail(s)))

rowToEpisode(row) ==
    [id |-> row.id, sessionId |-> row.session_id, summary |-> row.summary,
     messages |-> row.messages, startedAt |-> row.started_at, endedAt |-> row.ended_at,
     metadata |-> [userGoal |-> row.user_goal, outcome |-> row.outcome,
                   toolsUsed |-> row.tools_used, topicsDiscussed |-> row.topics,
                   lessonsLearned |-> row.lessons]]

Limit(s, limit) == SubSeq(s, 1, Min(limit, Len(s)))

\* saveEpisodeReplacing is saveEpisode with INSERT OR REPLACE
saveEpisodeReplacing(rows, sessionId, msgs, summary, t, isClosed) ==
    LET id == <<"ep", sessionId, t>>
        Other(r) == r.id # id
    IN  IF summary.kind # "object" \/ isClosed
        THEN [threw |-> TRUE, rows |-> rows, messages |-> msgs]
        ELSE [threw |-> FALSE, id |-> id, messages |-> msgs,
              rows |-> Append(SelectSeq(rows, Other),
                         [id |-> id, session_id |-> sessionId, summary |-> summary.summary,
                          messages |-> msgs,
                          started_at |-> IF msgs = <<>> THEN t ELSE msgs[1].timestamp,
                          ended_at |-> IF msgs = <<>> THEN t ELSE msgs[Len(msgs)].timestamp,
                          user_goal |-> summary.userGoal, outcome |-> summary.outcome,
                          tools_used |-> summary.toolsUsed, topics |-> summary.topicsDiscussed,
                          lessons |-> summary.lessonsLearned])]

\* saveEpisode(): messages.map and JSON.stringify read the turns and leave
\* them as they are (field messages of the result: the array after the call);
\* await llm.complete, JSON.parse, then INSERT under the id
\* ep_<sessionId>_<Date.now()>.  summary is how the llm call ended: of kind
\* "throws", "not JSON" (JSON.parse throws) or "object", the object parsed.  A second episode of
\* the same id violates the primary key and the INSERT throws.
saveEpisode(rows, sessionId, msgs, summary, t, isClosed) ==
    LET id == <<"ep", sessionId, t>>
    IN  IF \/ summary.kind # "object"
           \/ isClosed
           \/ \E i \in DOMAIN rows : rows[i].id = id
        THEN [threw |-> TRUE, rows |-> rows, messages |-> msgs]
        ELSE [threw |-> FALSE, id |-> id, messages |-> msgs,
              rows |-> Append(rows,
                         [id |-> id, session_id |-> sessionId, summary |-> summary.summary,
                          messages |-> msgs,
                          started_at |-> IF msgs = <<>> THEN t ELSE msgs[1].timestamp,
                          ended_at |-> IF msgs = <<>> THEN t ELSE msgs[Len(msgs)].timestamp,
                          user_goal |-> summary.userGoal, outcome |-> summary.outcome,
                          tools_used |-> summary.toolsUsed, topics |-> summary.topicsDiscussed,
                          lessons |-> summary.lessonsLearned])]

getRecent(rows, limit) ==
    LET sorted == Limit(ByStartDesc(rows), limit)
    IN  [i \in DOMAIN sorted |-> rowToEpisode(sorted[i])]

searchEpisodes(rows, query, limit) ==
    LET Matches(r) == \/ Like(r.summary, query)
                      \/ Like(JsonArray(r.topics), query)
                      \/ Like(r.user_goal, query)
        sorted == Limit(ByStartDesc(SelectSeq(rows, Matches)), limit)
    IN  [i \in DOMAIN sorted |-> rowToEpisode(sorted[i])]

getByTool(rows, toolName) ==
    LET Matches(r) == Like(JsonArray(r.tools_used), toolName)
        sorted == ByStartDesc(SelectSeq(rows, Matches))
    IN  [i \in DOMAIN sorted |-> rowToEpisode(sorted[i])]

\* [...new Set(allLessons)]: the first occurrence of each lesson, in order
RECURSIVE Dedupe(_, _)
Dedupe(s, seen) ==
    IF s = <<>> THEN <<>>
    ELSE IF Head(s) \in seen THEN Dedupe(Tail(s), seen)
         ELSE <<Head(s)>> \o Dedupe(Tail(s), seen \cup {Head(s)})

getLessons(rows) ==
    LET HasLessons(r) == r.lessons # <<>>
        kept == SelectSeq(rows, HasLessons)
    IN  Dedupe(Flatten([i \in DOMAIN kept |-> kept[i].lessons]), {})


(* AgentMemory of the guide *)

AgentMemory(systemPrompt) ==
    /\ shortTerm = <<GuideMessage("system", systemPrompt, 0)>>
    /\ longTerm = <<>>
    /\ episodes = <<>>
    /\ closed = FALSE
    /\ clock = 0
    /\ answer = [op |-> "new"]
    /\ calls = 0

\* slice(-n)
LastOf(s, n) == SubSeq(s, Max(1, Len(s) - n + 1), Len(s))

\* contextInjectionWithHeader is contextInjection with the header of the
\* lessons (## Lessons Learned) written outside the test of lessons.length
contextInjectionWithHeader(found, past, lessons) ==
    [memories |-> [i \in DOMAIN found |->
                      [type |-> found[i].entry.metadata.type,
                       content |-> found[i].entry.content]],
     episodes |-> [i \in DOMAIN past |->
                      [date |-> past[i].startedAt, summary |-> past[i].summary,
                       outcome |-> past[i].metadata.outcome]],
     lessons |-> <<<<35, 35>>>> \o LastOf(lessons, ContextLessons)]

\* the text buildContext injects, by its parts: a line per memory, per
\* episode and per lesson
contextInjection(found, past, lessons) ==
    [memories |-> [i \in DOMAIN found |->
                      [type |-> found[i].entry.metadata.type,
                       content |-> found[i].entry.content]],
     episodes |-> [i \in DOMAIN past |->
                      [date |-> past[i].startedAt, summary |-> past[i].summary,
                       outcome |-> past[i].metadata.outcome]],
     lessons |-> LastOf(lessons, ContextLessons)]

IsEmptyInjection(c) == c.memories = <<>> /\ c.episodes = <<>> /\ c.lessons = <<>>

\* messages.splice(1, 0, turn)
Splice1(msgs, turn) == <<Head(msgs), turn>> \o Tail(msgs)

buildContext(userMessage, embedding) ==
    LET found == longTermSearch(longTerm, userMessage, ContextMemories,
                                DefaultMinSimilarity, clock, embedding, closed)
        past == searchEpisodes(episodes, userMessage, ContextEpisodes)
        lessons == getLessons(episodes)
        injection == contextInjection(found.results, past, lessons)
    IN  /\ longTerm' = found.rows
        /\ answer' =
              IF found.threw
              THEN [op |-> "buildContext", embedding |-> embedding, threw |-> TRUE]
              ELSE [op |-> "buildContext", embedding |-> embedding, threw |-> FALSE,
                    found |-> found.results, past |-> past, lessons |-> lessons,
                    injected |-> ~IsEmptyInjection(injection),
                    returned |->
                        IF ~IsEmptyInjection(injection)
                        THEN Splice1(getForAPI(shortTerm),
                                     [role |-> "system", content |-> injection])
                        ELSE shortTermGetMessages(shortTerm)]
        /\ UNCHANGED <<shortTerm, episodes, closed, clock>>

\* the rows after the stores of mems[1..n], one after the other
RECURSIVE StoredUpTo(_, _, _)
StoredUpTo(rows, mems, n) ==
    IF n = 0 THEN rows
    ELSE longTermStore(StoredUpTo(rows, mems, n - 1), mems[n].content,
                       mems[n].type, <<"conversation", clock \div 24>>,
                       mems[n].importance, clock, "returns", closed).rows

\* processResponse(): await llm.complete, JSON.parse, then one awaited
\* store() per extracted memory.  extracted is how the llm call ended;
\* failAt is the store whose embedding call throws (0: none does)
processResponse(extracted, failAt) ==
    LET mems == IF extracted.kind = "object" THEN extracted.memories ELSE <<>>
        done == IF failAt = 0 THEN Len(mems) ELSE failAt - 1
        threw == extracted.kind # "object" \/ failAt # 0 \/ (closed /\ mems # <<>>)
    IN  /\ failAt <= Len(mems)
        /\ longTerm' = IF closed THEN longTerm ELSE StoredUpTo(longTerm, mems, done)
        /\ answer' = [op |-> "processResponse", threw |-> threw,
                      extractor |-> extracted.kind, failAt |-> failAt,
                      memories |-> mems,
                      stored |-> IF closed THEN 0 ELSE done]
        /\ UNCHANGED <<shortTerm, episodes, closed, clock>>

\* endSessionOfAnyLength is endSession without the test of messages.length
endSessionOfAnyLength(sessionId, summary) ==
    LET msgs == shortTermGetMessages(shortTerm)
        saved == saveEpisode(episodes, sessionId, msgs, summary, clock, closed)
    IN  /\ episodes' = saved.rows
        /\ answer' = [op |-> "endSession", sessionId |-> sessionId,
                      saveEpisode |-> TRUE, threw |-> saved.threw]
        /\ UNCHANGED <<shortTerm, longTerm, closed, clock>>

\* endSession(): saveEpisode when the buffer holds more than 2 messages
endSession(sessionId, summary) ==
    LET msgs == shortTermGetMessages(shortTerm)
        saved == saveEpisode(episodes, sessionId, msgs, summary, clock, closed)
    IN  /\ episodes' = IF Len(msgs) > 2 THEN saved.rows ELSE episodes
        /\ answer' = [op |-> "endSession", sessionId |-> sessionId,
                      saveEpisode |-> Len(msgs) > 2,
                      threw |-> Len(msgs) > 2 /\ saved.threw]
        /\ UNCHANGED <<shortTerm, longTerm, closed, clock>>

\* maintenance(): decay() with its default age; nothing catches what it throws
maintenance ==
    LET decayed == longTermDecay(longTerm, DecayHours, clock, closed)
    IN  /\ longTerm' = decayed.rows
        /\ answer' = [op |-> "maintenance", threw |-> decayed.threw,
                      decayed |-> decayed.changes]
        /\ UNCHANGED <<shortTerm, episodes, closed, clock>>

close ==
    /\ closed' = TRUE
    /\ answer' = [op |-> "close"]
    /\ UNCHANGED <<shortTerm, longTerm, episodes, clock>>


\* main() before its loop
Main ==
    /\ mainPc = "input"
    /\ tasks = <<>>
    /\ raced = FALSE
    /\ lost = <<>>

(* Inputs of the guide's AgentMemory *)

SystemPrompts == {T_hello}
UserMessages == {T_hello, T_dark}
\* the turns the agent loop adds
Turns == {[role |-> "user", content |-> T_dark],
          [role |-> "assistant", content |-> T_hello]}
EmbeddingOutcomes == {"returns", "throws"}
\* what the llm hands processResponse
Extractions ==
    { [kind |-> "throws"],
      [kind |-> "object", memories |->
          <<[content |-> T_dark_mode, type |-> "preference", importance |-> 50]>>],
      [kind |-> "object", memories |->
          <<[content |-> T_dark_mode, type |-> "fact", importance |-> 90],
            [content |-> T_deploy_app, type |-> "procedure", importance |-> 50]>>] }
\* what the llm hands saveEpisode
Summaries ==
    { [kind |-> "throws"],
      [kind |-> "not JSON"],
      [kind |-> "object", summary |-> T_dark_mode, userGoal |-> T_dark,
       outcome |-> "success", toolsUsed |-> <<T_deploy>>,
       topicsDiscussed |-> <<T_dark>>, lessonsLearned |-> <<T_deploy_app>>] }
SessionIds == {"s1"}
ElapsedHours == {DecayHours + 1}

GuideCall == calls < MaxAgentCalls /\ calls' = calls + 1 /\ UNCHANGED <<restVars, bufferVars, storeVars, toolVars>>

\* memory.shortTerm.add(...) of the agent loop
AddTurn ==
    /\ GuideCall
    /\ \E turn \in Turns :
          /\ shortTerm' = shortTermAdd(shortTerm, turn.role, turn.content, clock)
          /\ WithinBudget(shortTerm')
          /\ answer' = [op |-> "add"]
    /\ UNCHANGED <<longTerm, episodes, closed, clock>>

BuildContext ==
    /\ GuideCall
    /\ \E userMessage \in UserMessages, embedding \in EmbeddingOutcomes :
          buildContext(userMessage, embedding)

ProcessResponse ==
    /\ GuideCall
    /\ \E extracted \in Extractions, failAt \in 0..2 : processResponse(extracted, failAt)

EndSession ==
    /\ GuideCall
    /\ \E sessionId \in SessionIds, summary \in Summaries : endSession(sessionId, summary)

Maintenance == GuideCall /\ maintenance

Close == GuideCall /\ close

Elapse ==
    /\ GuideCall
    /\ \E h \in ElapsedHours : clock' = clock + h
    /\ UNCHANGED <<shortTerm, longTerm, episodes, closed, answer>>

-----------------------------------------------------------------------------
(* main() of the guide: the loop of exchanges, each starting a
   processResponse() that nothing awaits, then endSession() and close().  A
   started processResponse() runs on at each of its awaits: the llm call,
   then the embedding call of one store() after the other. *)

Without(s, i) == SubSeq(s, 1, i - 1) \o SubSeq(s, i + 1, Len(s))

\* one pass of the loop: the input is not 'exit'
exchange(userInput, reply, embedding) ==
    LET withUser == shortTermAdd(shortTerm, "user", userInput, clock)
        found == longTermSearch(longTerm, userInput, ContextMemories,
                                DefaultMinSimilarity, clock, embedding, closed)
    IN  /\ mainPc = "input"
        /\ longTerm' = found.rows
        /\ shortTerm' = IF found.threw THEN withUser
                        ELSE shortTermAdd(withUser, "assistant", reply, clock)
        /\ WithinBudget(shortTerm')
        /\ tasks' = IF found.threw THEN tasks
                    ELSE Append(tasks, [stage |-> "llm", memories |-> <<>>, next |-> 0])
        /\ mainPc' = IF found.threw THEN "crashed" ELSE "input"
        /\ answer' = [op |-> "exchange", threw |-> found.threw]
        /\ UNCHANGED <<episodes, closed, clock, raced, lost>>

\* processResponse() i after its llm call: JSON.parse, and the first store()
\* up to its await of the embedding
afterExtraction(i, extraction) ==
    LET mems == IF extraction.kind = "object" THEN extraction.memories ELSE <<>>
    IN  /\ tasks[i].stage = "llm"
        /\ tasks' = IF mems = <<>> THEN Without(tasks, i)
                    ELSE [tasks EXCEPT ![i] =
                             [stage |-> "embedding", memories |-> mems, next |-> 1]]
        /\ answer' = [op |-> "processResponse", threw |-> extraction.kind # "object"]
        /\ UNCHANGED <<shortTerm, longTerm, episodes, closed, clock, mainPc, raced, lost>>

\* processResponse() i after the embedding call of its store(): the INSERT,
\* and the next store() up to its await
afterEmbedding(i, embedding) ==
    LET task == tasks[i]
        mem == task.memories[task.next]
        written == longTermStore(longTerm, mem.content, mem.type,
                                 <<"conversation", clock \div 24>>, mem.importance,
                                 clock, embedding, closed)
    IN  /\ task.stage = "embedding"
        /\ longTerm' = written.rows
        /\ tasks' = IF written.threw \/ task.next = Len(task.memories)
                    THEN Without(tasks, i)
                    ELSE [tasks EXCEPT ![i].next = @ + 1]
        /\ raced' = (raced \/ (closed /\ embedding = "returns"))
        /\ lost' = IF written.threw
                   THEN lost \o SubSeq(task.memories, task.next, Len(task.memories))
                   ELSE lost
        /\ answer' = [op |-> "store", threw |-> written.threw]
        /\ UNCHANGED <<shortTerm, episodes, closed, clock, mainPc>>

\* the input is 'exit': await memory.endSession(sessionId, llm)
exit(sessionId, summary) ==
    /\ mainPc = "input"
    /\ endSession(sessionId, summary)
    /\ mainPc' = IF answer'.threw THEN "crashed" ELSE "closing"
    /\ UNCHANGED <<tasks, raced, lost>>

\* memory.close(), the last statement of main()
closeMain ==
    /\ mainPc = "closing"
    /\ close
    /\ mainPc' = "ended"
    /\ UNCHANGED <<tasks, raced, lost>>

MainInputs == {T_dark}
MainResponses == {T_hello}

Quiet == UNCHANGED <<bufferVars, storeVars, toolVars, loopVars, breakerVars>>

Exchange ==
    /\ calls < MaxExchanges
    /\ calls' = calls + 1
    /\ \E userInput \in MainInputs, reply \in MainResponses,
          embedding \in EmbeddingOutcomes : exchange(userInput, reply, embedding)
    /\ Quiet

Extracted ==
    /\ \E i \in DOMAIN tasks, extraction \in Extractions : afterExtraction(i, extraction)
    /\ UNCHANGED calls
    /\ Quiet

Stored ==
    /\ \E i \in DOMAIN tasks, embedding \in EmbeddingOutcomes : afterEmbedding(i, embedding)
    /\ UNCHANGED calls
    /\ Quiet

Exit ==
    /\ \E sessionId \in SessionIds, summary \in Summaries : exit(sessionId, summary)
    /\ UNCHANGED calls
    /\ Quiet

CloseMain == closeMain /\ UNCHANGED calls /\ Quiet

-----------------------------------------------------------------------------
(* CircuitBreaker (guide, Error Recovery).  call() runs to its await of fn()
   in one step and from the settling of fn() to its end in another; calls
   made before a pending fn() settles run in between. *)

DefaultMaxFailures == 5
DefaultResetTimeMs == 60000

CircuitBreaker(max, reset) ==
    /\ maxFailures = max
    /\ resetTimeMs = reset
    /\ failures = 0
    /\ lastFailure = 0
    /\ state = "closed"
    /\ pending = 0
    /\ time = reset + 1
    /\ streak = <<>>
    /\ lastCall = [op |-> "new"]

\* call() from its start to its await of fn(), or to its throw; time is
\* what Date.now() returns
call ==
    LET isOpen == state = "open"
        expired == time - lastFailure > resetTimeMs
        throws == isOpen /\ ~expired
    IN  /\ state' = IF isOpen /\ expired THEN "half-open" ELSE state
        /\ pending' = IF throws THEN pending ELSE pending + 1
        /\ lastCall' = [op |-> "call", n |-> calls', threw |-> throws, was |-> state]
        /\ UNCHANGED <<maxFailures, resetTimeMs, failures, lastFailure, time, streak>>

onSuccess ==
    /\ failures' = 0
    /\ state' = "closed"
    /\ UNCHANGED lastFailure

onFailureAboveMax ==
    /\ failures' = failures + 1
    /\ lastFailure' = time
    /\ state' = IF failures + 1 > maxFailures THEN "open" ELSE state

onFailure ==
    /\ failures' = failures + 1
    /\ lastFailure' = time
    /\ state' = IF failures + 1 >= maxFailures THEN "open" ELSE state

\* call() from the settling of a pending fn() to its end; streak is the
\* times of the failures of fn() since its last success
settled(fulfilled) ==
    /\ pending > 0
    /\ pending' = pending - 1
    /\ IF fulfilled THEN onSuccess ELSE onFailure
    /\ streak' = IF fulfilled THEN <<>> ELSE Append(streak, time)
    /\ UNCHANGED <<maxFailures, resetTimeMs, time, lastCall>>

\* new CircuitBreaker(...) of the guide's usage, and a breaker that trips sooner
BreakerArgs == {<<3, 30000>>, <<2, 2>>}

Idle ==
    UNCHANGED <<bufferVars, storeVars, toolVars, loopVars, mainVars,
                shortTerm, longTerm, episodes, closed, clock, answer>>

CallBreaker ==
    /\ calls < MaxBreakerCalls
    /\ calls' = calls + 1
    /\ call
    /\ Idle

Settled ==
    /\ \E fulfilled \in BOOLEAN : settled(fulfilled)
    /\ UNCHANGED calls
    /\ Idle

\* time passes: a millisecond, or resetTimeMs
Later ==
    /\ calls < MaxBreakerCalls
    /\ calls' = calls + 1
    /\ \E d \in {1, resetTimeMs} : time' = time + d
    /\ UNCHANGED <<maxFailures, resetTimeMs, failures, lastFailure, state, pending,
                   streak, lastCall>>
    /\ Idle

-----------------------------------------------------------------------------
(* jsonTransform of the MCP server template (templates/mcp-server/src/tools.ts).
   A JSON value is [t, v], t its kind: a number, a string (its character
   codes), null, undefined, an array (the sequence of its items) or an object
   (the sequence of its own properties [k, v] in the order Object.keys lists
   them).  The strings of the model are words of lower-case ASCII letters, or
   digits; none names a property of Object.prototype. *)

Num(n) == [t |-> "number", v |-> n]
Str(text) == [t |-> "string", v |-> text]
Null == [t |-> "null", v |-> <<>>]
Undefined == [t |-> "undefined", v |-> <<>>]
Arr(items) == [t |-> "array", v |-> items]
Obj(properties) == [t |-> "object", v |-> properties]

K_name == <<110, 97, 109, 101>>
K_age == <<97, 103, 101>>
K_tags == <<116, 97, 103, 115>>
K_desc == <<100, 101, 115, 99>>
K_length == <<108, 101, 110, 103, 116, 104>>
K_undefined == <<117, 110, 100, 101, 102, 105, 110, 101, 100>>
K_null == <<110, 117, 108, 108>>
K_object == <<91, 111, 98, 106, 101, 99, 116, 32, 79, 98, 106, 101, 99, 116, 93>>

\* Array.isArray(x)
IsArray(x) == x.t = "array"

\* typeof x === 'object' && x !== null
IsObject(x) == x.t \in {"array", "object"}

\* the decimal digits of a number, as String(n) writes them
RECURSIVE Decimal(_)
Decimal(n) ==
    IF n < 0 THEN <<45>> \o Decimal(-n)
    ELSE IF n < 10 THEN <<48 + n>>
    ELSE Decimal(n \div 10) \o <<48 + (n % 10)>>

IsDigits(text) == text # <<>> /\ \A i \in DOMAIN text : text[i] \in 48..57

RECURSIVE ParseDigits(_)
ParseDigits(text) ==
    IF text = <<>> THEN 0
    ELSE ParseDigits(SubSeq(text, 1, Len(text) - 1)) * 10 + (text[Len(text)] - 48)

\* the properties an array has: its indices and length
ArrayKeys(items) == [i \in 1..Len(items) |-> Decimal(i - 1)]

\* key in x
Has(x, key) ==
    CASE x.t = "object" -> \E i \in DOMAIN x.v : x.v[i].k = key
      [] x.t = "array" ->
            key = K_length \/ \E i \in DOMAIN x.v : ArrayKeys(x.v)[i] = key

\* x[key]
Get(x, key) ==
    CASE x.t = "object" ->
            IF \E i \in DOMAIN x.v : x.v[i].k = key
            THEN x.v[CHOOSE i \in DOMAIN x.v : x.v[i].k = key].v
            ELSE Undefined
      [] x.t = "array" ->
            IF key = K_length THEN Num(Len(x.v))
            ELSE IF \E i \in DOMAIN x.v : ArrayKeys(x.v)[i] = key
            THEN x.v[CHOOSE i \in DOMAIN x.v : ArrayKeys(x.v)[i] = key]
            ELSE Undefined

\* an array index as a property key: the canonical digits of an integer
IsIndexKey(key) == IsDigits(key) /\ (Len(key) = 1 \/ key[1] # 48)

\* whether property key k is listed before property key key
ListedBefore(k, key) ==
    IF IsIndexKey(key)
    THEN IsIndexKey(k) /\ ParseDigits(k) < ParseDigits(key)
    ELSE TRUE

\* properties after properties[key] = value: an own property keeps its place,
\* a new index goes among the indices in ascending order, a new name last
RECURSIVE Put(_, _, _)
Put(properties, key, value) ==
    IF properties = <<>> THEN <<[k |-> key, v |-> value]>>
    ELSE IF Head(properties).k = key
    THEN <<[k |-> key, v |-> value]>> \o Tail(properties)
    ELSE IF ListedBefore(Head(properties).k, key)
    THEN <<Head(properties)>> \o Put(Tail(properties), key, value)
    ELSE <<[k |-> key, v |-> value]>> \o properties

\* Object.assign(target, source)
RECURSIVE Assign(_, _)
Assign(target, source) ==
    IF source = <<>> THEN target
    ELSE Assign(Put(target, Head(source).k, Head(source).v), Tail(source))

\* String(x)
RECURSIVE StringOf(_)
StringOf(x) ==
    CASE x.t = "string" -> x.v
      [] x.t = "number" -> Decimal(x.v)
      [] x.t = "undefined" -> K_undefined
      [] x.t = "null" -> K_null
      [] x.t = "object" -> K_object
      [] x.t = "array" ->
            Flatten([i \in DOMAIN x.v |->
                        (IF i > 1 THEN <<44>> ELSE <<>>)
                        \o (IF x.v[i].t \in {"null", "undefined"} THEN <<>>
                            ELSE StringOf(x.v[i]))])

\* Number(x): a number, or NaN.  A string is a number when it is empty or is
\* digits; an array or an object goes by its String()
NumberOf(x) ==
    LET text == IF x.t \in {"string", "array", "object"} THEN trim(StringOf(x)) ELSE <<>>
    IN  CASE x.t = "number" -> [nan |-> FALSE, n |-> x.v]
          [] x.t = "null" -> [nan |-> FALSE, n |-> 0]
          [] x.t = "undefined" -> [nan |-> TRUE, n |-> 0]
          [] OTHER -> IF text = <<>> THEN [nan |-> FALSE, n |-> 0]
                      ELSE IF IsDigits(text) THEN [nan |-> FALSE, n |-> ParseDigits(text)]
                      ELSE [nan |-> TRUE, n |-> 0]

\* a.localeCompare(b) of two words of lower-case letters: -1, 0 or 1
RECURSIVE localeCompare(_, _)
localeCompare(a, b) ==
    IF a = <<>> /\ b = <<>> THEN 0
    ELSE IF a = <<>> THEN -1
    ELSE IF b = <<>> THEN 1
    ELSE IF Head(a) < Head(b) THEN -1
    ELSE IF Head(a) > Head(b) THEN 1
    ELSE localeCompare(Tail(a), Tail(b))

\* text.includes(part)
Includes(text, part) ==
    \E i \in 1..(Len(text) - Len(part) + 1) : SubSeq(text, i, i + Len(part) - 1) = part

Operators == {"eq", "neq", "gt", "lt", "gte", "lte", "contains"}

\* actual === expected: values of one primitive kind that are equal (an
\* object of a condition is never the object a field holds)
StrictEquals(actual, expected) ==
    /\ actual.t = expected.t
    /\ ~IsObject(actual)
    /\ actual.v = expected.v

compare(actual, operator, expected) ==
    LET a == NumberOf(actual)
        e == NumberOf(expected)
        numbers == ~a.nan /\ ~e.nan
    IN  CASE operator = "eq" -> StrictEquals(actual, expected)
          [] operator = "neq" -> ~StrictEquals(actual, expected)
          [] operator = "gt" -> numbers /\ a.n > e.n
          [] operator = "lt" -> numbers /\ a.n < e.n
          [] operator = "gte" -> numbers /\ a.n >= e.n
          [] operator = "lte" -> numbers /\ a.n <= e.n
          [] operator = "contains" ->
                Includes(toLowerCase(StringOf(actual)), toLowerCase(StringOf(expected)))

\* the object picked out of item: its fields of the list, in the list's order
RECURSIVE Picked(_, _)
Picked(item, fields) ==
    IF fields = <<>> THEN <<>>
    ELSE LET before == Picked(item, SubSeq(fields, 1, Len(fields) - 1))
             field == fields[Len(fields)]
         IN  IF Has(item, field) THEN Put(before, field, Get(item, field)) ELSE before

\* every function below hands back whether it threw, what it returned, and
\* the data it was given as the call leaves it
Thrown(data) == [threw |-> TRUE, result |-> Undefined, data |-> data]

Yielded(result, data) == [threw |-> FALSE, result |-> result, data |-> data]

pickFields(data, fields) ==
    IF fields = <<>> THEN Thrown(data)
    ELSE IF IsArray(data)
    THEN Yielded(Arr([i \in DOMAIN data.v |->
                          IF ~IsObject(data.v[i]) THEN data.v[i]
                          ELSE Obj(Picked(data.v[i], fields))]), data)
    ELSE Yielded(Obj(Picked(data, fields)), data)

filterData(data, condition) ==
    LET Keeps(item) ==
            /\ IsObject(item)
            /\ compare(Get(item, condition.field), condition.operator, condition.value)
    IN  IF condition = Undefined THEN Thrown(data)
        ELSE IF ~IsArray(data) THEN Thrown(data)
        ELSE IF condition.operator \notin Operators /\ \E i \in DOMAIN data.v : IsObject(data.v[i])
        THEN Thrown(data)
        ELSE Yielded(Arr(SelectSeq(data.v, Keeps)), data)

\* the comparator of sortData; NaN counts as 0
Comparator(a, b, field, direction) ==
    LET aVal == IF IsObject(a) THEN Get(a, field) ELSE a
        bVal == IF IsObject(b) THEN Get(b, field) ELSE b
        x == NumberOf(aVal)
        y == NumberOf(bVal)
    IN  IF aVal.t = "string" /\ bVal.t = "string"
        THEN localeCompare(aVal.v, bVal.v) * direction
        ELSE IF x.nan \/ y.nan THEN 0 ELSE (x.n - y.n) * direction

\* Array.prototype.sort is stable: items the comparator calls equal keep
\* their order
RECURSIVE InsertBy(_, _, _, _)
InsertBy(item, sorted, field, direction) ==
    IF sorted = <<>> THEN <<item>>
    ELSE IF Comparator(Head(sorted), item, field, direction) < 0
         THEN <<Head(sorted)>> \o InsertBy(item, Tail(sorted), field, direction)
         ELSE <<item>> \o sorted

RECURSIVE SortBy(_, _, _)
SortBy(items, field, direction) ==
    IF items = <<>> THEN <<>>
    ELSE InsertBy(Head(items), SortBy(Tail(items), field, direction), field, direction)

Direction(fields) ==
    IF Len(fields) >= 2 /\ toLowerCase(fields[2]) = K_desc THEN -1 ELSE 1

\* sortDataInPlace is sortData with data.sort(...) for [...data].sort(...)
sortDataInPlace(data, fields) ==
    IF ~IsArray(data) THEN Thrown(data)
    ELSE IF fields = <<>> THEN Thrown(data)
    ELSE Yielded(Arr(SortBy(data.v, fields[1], Direction(fields))),
                  Arr(SortBy(data.v, fields[1], Direction(fields))))

sortData(data, fields) ==
    IF ~IsArray(data) THEN Thrown(data)
    ELSE IF fields = <<>> THEN Thrown(data)
    ELSE Yielded(Arr(SortBy(data.v, fields[1], Direction(fields))), data)

\* the properties of data, the keys an array has being its indices
Entries(data) ==
    IF IsArray(data)
    THEN [i \in DOMAIN data.v |-> [k |-> ArrayKeys(data.v)[i], v |-> data.v[i]]]
    ELSE data.v

\* flattenData(data, prefix): the properties of the result
RECURSIVE flattenData(_, _)
RECURSIVE FlattenInto(_, _, _)
FlattenInto(result, entries, prefix) ==
    IF entries = <<>> THEN result
    ELSE LET key == Head(entries).k
             value == Head(entries).v
             fullKey == IF prefix # <<>> THEN prefix \o <<46>> \o key ELSE key
         IN  FlattenInto(IF IsObject(value)
                         THEN Assign(result, flattenData(value, fullKey))
                         ELSE Put(result, fullKey, value),
                         Tail(entries), prefix)

flattenData(data, prefix) ==
    IF IsObject(data) THEN FlattenInto(<<>>, Entries(data), prefix) ELSE <<>>

\* the groups after the items, each pushed to the group of its key
RECURSIVE GroupInto(_, _, _)
GroupInto(groups, items, field) ==
    IF items = <<>> THEN groups
    ELSE LET item == Head(items)
             value == IF IsObject(item) THEN Get(item, field) ELSE Undefined
             key == IF value.t \in {"null", "undefined"} THEN K_undefined
                    ELSE StringOf(value)
             group == Get(Obj(groups), key)
         IN  GroupInto(IF ~IsObject(item) THEN groups
                       ELSE Put(groups, key,
                                Arr((IF group = Undefined THEN <<>> ELSE group.v)
                                    \o <<item>>)),
                       Tail(items), field)

\* groupByFieldOfAny is groupByField without the test of field
groupByFieldOfAny(data, fields) ==
    IF ~IsArray(data) THEN Thrown(data)
    ELSE Yielded(Obj(GroupInto(<<>>, data.v,
                                IF fields = <<>> THEN K_undefined ELSE fields[1])), data)

\* groupByField(data, fields[0])
groupByField(data, fields) ==
    IF ~IsArray(data) THEN Thrown(data)
    ELSE IF fields = <<>> \/ fields[1] = <<>> THEN Thrown(data)
    ELSE Yielded(Obj(GroupInto(<<>>, data.v, fields[1])), data)

jsonTransform(data, operation, fields, condition) ==
    CASE operation = "pick" -> pickFields(data, fields)
      [] operation = "filter" -> filterData(data, condition)
      [] operation = "sort" -> sortData(data, fields)
      [] operation = "flatten" -> Yielded(Obj(flattenData(data, <<>>)), data)
      [] operation = "group_by" -> groupByField(data, fields)
      [] OTHER -> Thrown(data)

(* Inputs of jsonTransform *)

People ==
    Arr(<<Obj(<<[k |-> K_name, v |-> Str(<<98>>)], [k |-> K_age, v |-> Num(30)]>>),
          Obj(<<[k |-> K_name, v |-> Str(<<97>>)], [k |-> K_age, v |-> Num(25)]>>),
          Obj(<<[k |-> K_name, v |-> Str(<<99>>)], [k |-> K_age, v |-> Null]>>)>>)
Person ==
    Obj(<<[k |-> K_name, v |-> Str(<<97>>)],
          [k |-> K_tags, v |-> Arr(<<Str(<<120>>), Num(7)>>)]>>)
Numbers == Arr(<<Num(3), Num(1), Num(2)>>)
Mixed ==
    Arr(<<Obj(<<[k |-> K_name, v |-> Str(<<97>>)], [k |-> K_age, v |-> Num(30)]>>),
          Num(7)>>)
TransformData == {People, Person, Numbers, Mixed}
Operations == {"pick", "filter", "sort", "flatten", "group_by", "merge"}
FieldLists == {<<>>, <<K_name>>, <<K_age, K_desc>>, <<<<>>>>}
Conditions ==
    { Undefined,
      [field |-> K_age, operator |-> "gte", value |-> Num(30)],
      [field |-> K_name, operator |-> "contains", value |-> Str(<<65>>)] }

\* a caller holding the arguments of a call it has not made yet
Requested(data, operation, fields, condition) ==
    /\ request = [data |-> data, operation |-> operation, fields |-> fields,
                  condition |-> condition]
    /\ response = [op |-> "none", calls |-> 0, threw |-> FALSE, result |-> Undefined]

\* jsonTransform(data, operation, fields, condition) on the arguments held
Transform ==
    /\ response.calls < MaxTransforms
    /\ LET out == jsonTransform(request.data, request.operation, request.fields,
                                request.condition)
       IN  /\ request' = [request EXCEPT !.data = out.data]
           /\ response' = [op |-> "jsonTransform", calls |-> response.calls + 1,
                           threw |-> out.threw, result |-> out.result]
    /\ UNCHANGED <<restVars, bufferVars, storeVars, guideVars>>

-----------------------------------------------------------------------------
(* Calls on the EpisodicMemory and on the LongTermMemory of the guide *)

\* one more call, while the model's bound allows it
MemoryCall ==
    /\ calls < MaxAgentCalls
    /\ calls' = calls + 1
    /\ UNCHANGED <<restVars, bufferVars, storeVars, toolVars, closed, clock>>

EpisodeQueries == {T_dark, T_hello}
ToolNames == {T_deploy, T_dark}
EpisodeLimits == {1, 10}

\* saveEpisode(sessionId, messages, llm) on the turns of the buffer
SaveEpisode ==
    /\ MemoryCall
    /\ \E sessionId \in SessionIds, summary \in Summaries :
          LET saved == saveEpisode(episodes, sessionId, shortTerm, summary, clock, closed)
          IN  /\ episodes' = saved.rows
              /\ shortTerm' = saved.messages
              /\ answer' = [op |-> "saveEpisode", threw |-> saved.threw]
    /\ UNCHANGED longTerm

GetRecent ==
    /\ MemoryCall
    /\ \E limit \in EpisodeLimits :
          answer' = [op |-> "getRecent", result |-> getRecent(episodes, limit)]
    /\ UNCHANGED <<shortTerm, longTerm, episodes>>

SearchEpisodes ==
    /\ MemoryCall
    /\ \E query \in EpisodeQueries, limit \in EpisodeLimits :
          answer' = [op |-> "searchEpisodes",
                     result |-> searchEpisodes(episodes, query, limit)]
    /\ UNCHANGED <<shortTerm, longTerm, episodes>>

GetByTool ==
    /\ MemoryCall
    /\ \E toolName \in ToolNames :
          answer' = [op |-> "getByTool", result |-> getByTool(episodes, toolName)]
    /\ UNCHANGED <<shortTerm, longTerm, episodes>>

GetLessons ==
    /\ MemoryCall
    /\ answer' = [op |-> "getLessons", result |-> getLessons(episodes)]
    /\ UNCHANGED <<shortTerm, longTerm, episodes>>

\* a turn added to the buffer, or the clock moving on, between two calls
Between ==
    /\ calls < MaxAgentCalls
    /\ calls' = calls + 1
    /\ \/ \E turn \in Turns :
             /\ shortTerm' = shortTermAdd(shortTerm, turn.role, turn.content, clock)
             /\ clock' = clock
       \/ \E h \in ElapsedHours : clock' = clock + h /\ shortTerm' = shortTerm
    /\ answer' = [op |-> "between"]
    /\ UNCHANGED <<restVars, bufferVars, storeVars, toolVars, longTerm, episodes, closed>>

LongTermStoreRequests ==
    { [content |-> T_dark_mode, type |-> "preference", importance |-> 50],
      [content |-> T_dark_mode, type |-> "fact", importance |-> 90],
      [content |-> T_deploy_app, type |-> "procedure", importance |-> 100] }

\* store(content, type, source, importance)
LongTermStore ==
    /\ MemoryCall
    /\ \E q \in LongTermStoreRequests, embedding \in EmbeddingOutcomes :
          LET stored == longTermStore(longTerm, q.content, q.type, "s1", q.importance,
                                      clock, embedding, closed)
          IN  /\ longTerm' = stored.rows
              /\ answer' = [op |-> "store", content |-> q.content,
                            embedding |-> embedding, threw |-> stored.threw]
    /\ UNCHANGED <<shortTerm, episodes>>

\* search(query) with the default options
LongTermSearch ==
    /\ MemoryCall
    /\ \E query \in {T_dark, T_deploy}, embedding \in EmbeddingOutcomes :
          LET found == longTermSearch(longTerm, query, DefaultSearchLimit,
                                      DefaultMinSimilarity, clock, embedding, closed)
          IN  /\ longTerm' = found.rows
              /\ answer' = [op |-> "search", query |-> query, embedding |-> embedding,
                            threw |-> found.threw, results |-> found.results]
    /\ UNCHANGED <<shortTerm, episodes>>

-----------------------------------------------------------------------------
(* Specifications *)

\* the buffer under add(), beside a store no call is made on
InitBuffer ==
    /\ \E p \in SystemPromptLens, max \in MaxTokensChoices : Constructor(p, max)
    /\ \E dim \in Dimensions : Open(dim)
    /\ \E systemPrompt \in SystemPrompts : AgentMemory(systemPrompt)
    /\ Main
    /\ CircuitBreaker(DefaultMaxFailures, DefaultResetTimeMs)
    /\ Agent(DefaultMaxIterations)
    /\ Requested(Arr(<<>>), "flatten", <<>>, Undefined)

NextBuffer == Add

SpecBuffer == InitBuffer /\ [][NextBuffer]_vars

\* the store under its calls, beside a buffer no call is made on
InitStore ==
    /\ \E p \in SystemPromptLens : Constructor(p, 80000)
    /\ \E dim \in Dimensions : Open(dim)
    /\ \E systemPrompt \in SystemPrompts : AgentMemory(systemPrompt)
    /\ Main
    /\ CircuitBreaker(DefaultMaxFailures, DefaultResetTimeMs)
    /\ Agent(DefaultMaxIterations)
    /\ Requested(Arr(<<>>), "flatten", <<>>, Undefined)

NextStore == Store \/ Search \/ Delete \/ Decay \/ Advance

SpecStore == InitStore /\ [][NextStore]_vars

\* the store under calls with any arguments, reopened with either dimension
NextStoreAny == StoreAny \/ SearchAny \/ ReopenAny

SpecStoreAny == InitStore /\ [][NextStoreAny]_vars

\* the template's agent under run(), over a store that store() fills
NextTouch == StoreLow \/ SearchLow \/ DecayLow \/ Wait

SpecTouch == InitStore /\ [][NextTouch]_vars

InitLoop ==
    /\ \E p \in SystemPromptLens : Constructor(p, 80000)
    /\ \E dim \in Dimensions : Open(dim)
    /\ \E systemPrompt \in SystemPrompts : AgentMemory(systemPrompt)
    /\ Main
    /\ CircuitBreaker(DefaultMaxFailures, DefaultResetTimeMs)
    /\ \E maxIterations \in MaxIterationsChoices : Agent(maxIterations)
    /\ Requested(Arr(<<>>), "flatten", <<>>, Undefined)

NextLoop == RememberNote \/ BeginRun \/ Iterate \/ Exhaust

SpecLoop == InitLoop /\ [][NextLoop]_vars

\* run() on an empty store; a model call returns or throws, and run() goes
\* on to its next statement
NextLoopFair == BeginRun \/ Iterate \/ Exhaust

SpecLoopFair ==
    InitLoop /\ [][NextLoopFair]_vars /\ WF_vars(Iterate) /\ WF_vars(Exhaust)

NextMain == Exchange \/ Extracted \/ Stored \/ Exit \/ CloseMain

SpecMain == InitStore /\ [][NextMain]_vars

\* a circuit breaker under calls whose fn() settles in any order
InitBreaker ==
    /\ \E p \in SystemPromptLens : Constructor(p, 80000)
    /\ \E dim \in Dimensions : Open(dim)
    /\ \E systemPrompt \in SystemPrompts : AgentMemory(systemPrompt)
    /\ Main
    /\ \E args \in BreakerArgs : CircuitBreaker(args[1], args[2])
    /\ Agent(DefaultMaxIterations)
    /\ Requested(Arr(<<>>), "flatten", <<>>, Undefined)

NextBreaker == CallBreaker \/ Settled \/ Later

SpecBreaker == InitBreaker /\ [][NextBreaker]_vars

NextRun == Store \/ Run

SpecRun == InitStore /\ [][NextRun]_vars

\* the guide's AgentMemory under its calls and the agent loop's add()
NextAgent ==
    \/ AddTurn \/ BuildContext \/ ProcessResponse \/ EndSession
    \/ Maintenance \/ Close \/ Elapse

SpecAgent == InitStore /\ [][NextAgent]_vars

\* the guide's EpisodicMemory under its calls
NextEpisodes ==
    SaveEpisode \/ GetRecent \/ SearchEpisodes \/ GetByTool \/ GetLessons \/ Between

SpecEpisodes == InitStore /\ [][NextEpisodes]_vars

\* the guide's LongTermMemory under store() and search()
NextLongTerm == LongTermStore \/ LongTermSearch \/ Between

SpecLongTerm == InitStore /\ [][NextLongTerm]_vars

\* jsonTransform called, and called again, on arguments of every kind
InitTransform ==
    /\ \E p \in SystemPromptLens : Constructor(p, 80000)
    /\ \E dim \in Dimensions : Open(dim)
    /\ \E systemPrompt \in SystemPrompts : AgentMemory(systemPrompt)
    /\ Main
    /\ CircuitBreaker(DefaultMaxFailures, DefaultResetTimeMs)
    /\ Agent(DefaultMaxIterations)
    /\ \E data \in TransformData, operation \in Operations,
          fields \in FieldLists, condition \in Conditions :
          Requested(data, operation, fields, condition)

NextTransform == Transform

SpecTransform == InitTransform /\ [][NextTransform]_vars

-----
(* Operators of the properties *)

Ids(s) == {s[i].id : i \in DOMAIN s}

PosOf(s, id) == CHOOSE i \in DOMAIN s : s[i].id = id

RECURSIVE SumAt(_, _)
SumAt(s, I) ==
    IF I = {} THEN 0
    ELSE LET i == CHOOSE x \in I : TRUE
         IN  s[i].tokenEstimate + SumAt(s, I \ {i})

\* indices of the first 3 and of the last 8 turns of s
HeadIdx(s) == {i \in DOMAIN s : i <= 3}

TailIdx(s) == {i \in DOMAIN s : i > Len(s) - 8}

HeadTailEstimate(s) == SumAt(s, HeadIdx(s) \cup TailIdx(s))

Total(s) == SumAt(s, DOMAIN s)

IsMarker(m) == m.content.kind = "omitted"

\* the turn as a caller sees it: role, content and estimate, not the object
Visible(s) ==
    [i \in DOMAIN s |->
        [role |-> s[i].role, content |-> s[i].content,
         tokenEstimate |-> s[i].tokenEstimate]]

\* the last add() removed at least one turn that it found or pushed
DroppedByLastAdd == Ids(pushed) \ Ids(messages) # {}

OverBudget == Total(messages) > maxTokens

-----------------------------------------------------------------------------
(* C1: in every state of the buffer, after construction and after every
   add() with or without compaction, the first turn has role system. *)
C1_FirstTurnIsSystem == Len(messages) >= 1 /\ messages[1].role = "system"

C1_Witness ==
    /\ messages[1].role = "system"
    /\ \E i \in DOMAIN messages : IsMarker(messages[i]) /\ messages[i].id = -adds
    /\ \E i \in DOMAIN messages : messages[i].content.cuts > 0
    /\ adds >= 13

(* C2: when the buffer exceeds max_tokens, the estimate after the compaction
   is at most the estimate immediately before it. *)
C2_NeverIncreases ==
    Total(pushed) > maxTokens => Total(messages) <= Total(pushed)

(* C3 as stated: after add() the estimate is at most max_tokens unless the
   first 3 turns plus the last 8 turns alone exceed max_tokens. *)
C3_OverBudgetOnlyIfHeadTailOver ==
    OverBudget => HeadTailEstimate(messages) > maxTokens

(* C3 amended: after add() the estimate is at most max_tokens unless the
   first 3 turns plus the last 8 turns plus the 20 tokens of the synthetic
   omission turn exceed max_tokens. *)
C3_OverBudgetOnlyIfHeadTailMarkerOver ==
    OverBudget => HeadTailEstimate(messages) + 20 > maxTokens

C3_Witness ==
    /\ OverBudget
    /\ DroppedByLastAdd
    /\ HeadTailEstimate(messages) <= maxTokens
    /\ HeadTailEstimate(messages) + 20 > maxTokens

(* C4: an add() that drops turns leaves exactly 12 turns: the 3 head turns
   and the 8 tail turns of the buffer it compacted, with one synthetic turn
   between them; compaction never leaves fewer than 12 turns of a buffer
   that had at least 12. *)
C4_DropLeavesHeadMarkerTail ==
    /\ Len(pushed) >= 12 => Len(messages) >= 12
    /\ DroppedByLastAdd =>
        /\ Len(messages) = 12
        /\ \A i \in 1..3 : messages[i].id = pushed[i].id
        /\ IsMarker(messages[4]) /\ messages[4].id = -adds
        /\ \A k \in 1..8 : messages[4 + k].id = pushed[Len(pushed) - 8 + k].id

C4_Witness ==
    /\ maxTokens = 50
    /\ adds = 20
    /\ bigAdded = 0
    /\ DroppedByLastAdd
    /\ Len(messages) = 12

(* C5: running the compaction again on the buffer an add() left, with no
   turn added, leaves roles, contents and estimates unchanged. *)
C5_Idempotent ==
    Visible(compactIfNeeded(messages, maxTokens, 0)) = Visible(messages)

(* C6: the first 3 and the last 8 turns of the buffer before a compaction
   are present after it, and surviving turns keep their relative order. *)
C6_HeadTailKeptInOrder ==
    /\ \A i \in HeadIdx(pushed) \cup TailIdx(pushed) : pushed[i].id \in Ids(messages)
    /\ \A i, j \in DOMAIN messages :
          (i < j /\ messages[i].id \in Ids(pushed) /\ messages[j].id \in Ids(pushed))
              => PosOf(pushed, messages[i].id) < PosOf(pushed, messages[j].id)

C6_Witness ==
    /\ DroppedByLastAdd
    /\ Len(pushed) >= 13
    /\ \E i \in DOMAIN pushed : truncated[i] # pushed[i]

(* C7 as stated: pass 1 changes a turn only if it is outside the first 3
   and the last 8 turns, has role tool and an estimate above 300. *)
C7_Pass1OutsideHeadAndTail ==
    \A i \in DOMAIN pushed :
        truncated[i] # pushed[i] =>
            /\ i \notin HeadIdx(pushed) \cup TailIdx(pushed)
            /\ pushed[i].role = "tool"
            /\ pushed[i].tokenEstimate > 300

(* C7 amended: pass 1 changes a turn only if it is not the first turn and
   not among the last 6 turns, has role tool and an estimate above 300;
   the first turn, the last 6 turns and every non-tool turn keep content
   and estimate. *)
C7_Pass1OutsideFirstAndLastSix ==
    \A i \in DOMAIN pushed :
        truncated[i] # pushed[i] =>
            /\ i > 1
            /\ i <= Len(pushed) - 6
            /\ pushed[i].role = "tool"
            /\ pushed[i].tokenEstimate > 300

C7_Witness ==
    /\ Len(pushed) >= 12
    /\ truncated[Len(pushed) - 6] # pushed[Len(pushed) - 6]
    /\ \E i \in 2..(Len(pushed) - 6) :
          /\ pushed[i].role = "assistant"
          /\ pushed[i].tokenEstimate > 300
          /\ truncated[i] = pushed[i]

(* C8: when the first 3 plus the last 8 turns alone exceed max_tokens,
   add() returns without an error, leaves the buffer over budget and
   surfaces a diagnostic flag to the caller. *)
C8_OverBudgetIsFlagged ==
    (adds >= 1 /\ HeadTailEstimate(messages) > maxTokens) =>
        /\ ~lastAdd.threw
        /\ OverBudget
        /\ lastAdd.flagged

(* C9: storing a content again returns the id of the record it already
   had and leaves exactly one record for it; after any sequence of store,
   search, delete and decay calls no two records have the same content. *)
C9_OneRecordPerContent ==
    /\ \A i, j \in DOMAIN memories :
          memories[i].content = memories[j].content => i = j
    /\ ret.op = "store" =>
          /\ \E i \in DOMAIN memories : memories[i].content = ret.content
          /\ \A i \in DOMAIN memories :
                memories[i].content = ret.content => memories[i].id = ret.id
          /\ \A k \in DOMAIN replaced :
                replaced[k].content = ret.content => replaced[k].id = ret.id

C9_Witness ==
    /\ ret.op = "store"
    /\ Len(memories) >= 2
    /\ replaced # <<>>
    /\ replaced[1].content = ret.content
    /\ \E i \in DOMAIN memories : memories[i].content = ret.content

(* C10: after store(c, t2, s2, i2) on a content already stored, whatever
   searches returned the record in between, getAll() holds one record for
   c, with type t2, source s2, importance i2 and accessCount 0. *)
C10_RestoreReplacesAndResets ==
    ret.op = "store" =>
        \A recs \in getAll :
            /\ Cardinality({i \in DOMAIN recs : recs[i].content = ret.content}) = 1
            /\ \A i \in DOMAIN recs :
                  recs[i].content = ret.content =>
                      /\ recs[i].type = ret.type
                      /\ recs[i].source = ret.source
                      /\ recs[i].importance = ret.importance
                      /\ recs[i].accessCount = 0

C10_Witness ==
    /\ ret.op = "store"
    /\ replaced # <<>>
    /\ replaced[1].content = ret.content
    /\ replaced[1].access_count >= 2
    /\ replaced[1].type # ret.type
    /\ replaced[1].source # ret.source
    /\ replaced[1].importance # ret.importance
    /\ getAll # {}

(* C11: store() of an empty content fails with InvalidInput and leaves the
   records as they were: no call of store with an empty content returns an
   id, and no record with an empty content is ever present. *)
C11_EmptyContentRejected ==
    /\ ~(ret.op = "store" /\ ret.content = <<>>)
    /\ \A i \in DOMAIN memories : memories[i].content # <<>>

\* the blended score of a row for a query, in ten-thousandths
Score(row, query) ==
    Boosted(cosineSimilarity(embed(query), Float32View(row.embedding, dimension)),
            row.importance)

\* the ids search() returned
Returned == {ret.results[i].record.id : i \in DOMAIN ret.results}

(* C12: search(q, limit, min_similarity) returns at most limit results, each
   a distinct stored record whose blended score sim * 0.8 + importance * 0.2
   is at least min_similarity, in descending order of that score, and no
   record left out has a strictly greater score than a returned one. *)
C12_SearchRanksByScore ==
    (ret.op = "search" /\ ~ret.threw) =>
        LET res == ret.results
        IN  /\ Len(res) <= ret.limit
            /\ \A i, j \in DOMAIN res : res[i].record.id = res[j].record.id => i = j
            /\ \A i \in DOMAIN res :
                  \E k \in DOMAIN memories :
                      /\ memories[k].id = res[i].record.id
                      /\ memories[k].content = res[i].record.content
                      /\ res[i].similarity = Score(memories[k], ret.query)
                      /\ res[i].similarity >= ret.minSimilarity
            /\ \A i \in 1..(Len(res) - 1) : res[i].similarity >= res[i + 1].similarity
            /\ \A k \in DOMAIN memories :
                  memories[k].id \notin Returned =>
                      \A i \in DOMAIN res : Score(memories[k], ret.query) <= res[i].similarity

C12_Witness ==
    /\ ret.op = "search"
    /\ Len(ret.results) = 2
    /\ ret.limit = 2
    /\ ret.results[1].similarity > ret.results[2].similarity
    /\ \E k \in DOMAIN memories :
          /\ memories[k].id \notin Returned
          /\ Score(memories[k], ret.query) >= ret.minSimilarity

\* the step is a call of search(): the clock stands and the result is a search's
SearchStep == ops' # ops /\ now' = now /\ ret'.op = "search" /\ ~ret'.threw

\* last_accessed of the row of this id as the call found it
LastAccessed(id) == memories[PosOf(memories, id)].last_accessed

(* C13: among records of equal blended score, search() returns the one
   accessed most recently first, and when the limit cuts the list it keeps
   the one accessed most recently. *)
C13_TiesByRecency ==
    [][SearchStep =>
        LET res == ret'.results
            got == {res[i].record.id : i \in DOMAIN res}
        IN  /\ \A i, j \in DOMAIN res :
                  (i < j /\ res[i].similarity = res[j].similarity) =>
                      LastAccessed(res[i].record.id) >= LastAccessed(res[j].record.id)
            /\ \A i \in DOMAIN res, k \in DOMAIN memories :
                  (memories[k].id \notin got
                        /\ Score(memories[k], ret'.query) = res[i].similarity) =>
                      LastAccessed(res[i].record.id) >= memories[k].last_accessed]_vars

(* C14: search() touches exactly the records it returns: each returned
   record has its access_count raised by 1 and its last_accessed set to the
   time of the call, every other record is left as it was, and no record is
   added or removed. *)
C14_SearchTouchesReturned ==
    [][SearchStep =>
        LET got == {ret'.results[i].record.id : i \in DOMAIN ret'.results}
        IN  /\ Len(memories') = Len(memories)
            /\ \A k \in DOMAIN memories :
                  IF memories[k].id \in got
                  THEN memories'[k] = [memories[k] EXCEPT !.access_count = @ + 1,
                                                         !.last_accessed = now]
                  ELSE memories'[k] = memories[k]]_vars

C14_Witness ==
    /\ ret.op = "search"
    /\ \E k \in DOMAIN memories :
          /\ memories[k].id \in Returned
          /\ memories[k].access_count >= 2
          /\ memories[k].last_accessed = now
          /\ memories[k].created_at < now
    /\ \E k \in DOMAIN memories :
          /\ memories[k].id \notin Returned
          /\ memories[k].access_count = 0
          /\ memories[k].last_accessed < now

(* C15: search(q, limit, 1.1) returns an empty list, for every query and
   every state of the store that calls of store() with any importance it
   accepts can reach, and it touches no record. *)
C15_AboveOneFindsNothing ==
    [][(SearchStep /\ ret'.minSimilarity = 11000) =>
        /\ ret'.results = <<>>
        /\ memories' = memories]_vars

(* C16: after any sequence of store() calls, with any importance arguments,
   every record has an importance in [0, 1]. *)
C16_ImportanceInUnitRange ==
    \A k \in DOMAIN memories :
        memories[k].importance >= 0 /\ memories[k].importance <= 100

\* the step is a call of decay(): the clock stands and the result is a decay's
DecayStep == ops' # ops /\ now' = now /\ ret'.op = "decay"

\* the rows of after are rows of before, in their order
KeptUnchanged(before, after) ==
    \E Keep \in SUBSET DOMAIN before :
        LET Kept(k) == k \in Keep
            idx == SelectSeq([k \in DOMAIN before |-> k], Kept)
        IN  after = [n \in DOMAIN idx |-> before[idx[n]]]

(* C17: decay(max_age, importance_floor, access_floor) removes a record if
   and only if (now - last_accessed) > max_age and importance <
   importance_floor and access_count < access_floor, the floors being the
   ones the caller passed; a record failing any one of the three is kept
   unchanged, and the count returned is the number of records removed. *)
C17_RemovesUnderPassedFloors ==
    [][(DecayStep /\ Len(ret'.arguments) = 3) =>
        LET max_age == ret'.arguments[1] * MsPerDay
            importance_floor == ret'.arguments[2]
            access_floor == ret'.arguments[3]
        IN  /\ \A k \in DOMAIN memories :
                  memories[k].id \notin Ids(memories') <=>
                      /\ now - memories[k].last_accessed > max_age
                      /\ memories[k].importance < importance_floor
                      /\ memories[k].access_count < access_floor
            /\ KeptUnchanged(memories, memories')
            /\ ret'.changes = Len(memories) - Len(memories')]_vars

(* C17, amended: decay(maxAgeDays) removes a record if and only if
   (now - last_accessed) > maxAgeDays days and importance < 0.7 and
   access_count < 3, whatever else the caller passes; a record failing any
   one of the three is kept unchanged, and the count returned is the number
   of records removed. *)
C17_RemovesUnderFixedFloors ==
    [][DecayStep =>
        LET max_age == ret'.arguments[1] * MsPerDay
        IN  /\ \A k \in DOMAIN memories :
                  memories[k].id \notin Ids(memories') <=>
                      /\ now - memories[k].last_accessed > max_age
                      /\ memories[k].importance < 70
                      /\ memories[k].access_count < 3
            /\ KeptUnchanged(memories, memories')
            /\ ret'.changes = Len(memories) - Len(memories')]_vars

C17_Witness ==
    /\ ret.op = "decay"
    /\ ret.arguments[1] = 1
    /\ ret.changes >= 1
    /\ \E k \in DOMAIN memories :
          /\ memories[k].importance < 70
          /\ memories[k].access_count < 3
          /\ now - memories[k].last_accessed <= MsPerDay
    /\ \E k \in DOMAIN memories :
          /\ memories[k].importance >= 70
          /\ now - memories[k].last_accessed > MsPerDay

(* C18: decay(max_age = 0, importance_floor = 1.0, access_floor = infinity)
   removes every record with importance < 1.0, however recently it was
   stored or touched and whatever its access_count, and keeps every record
   with importance 1.0. *)
C18_ZeroAgeRemovesAllBelowOne ==
    [][(DecayStep /\ ret'.arguments = <<0, 100, 1000000>>) =>
        \A k \in DOMAIN memories :
            memories[k].id \in Ids(memories') <=> memories[k].importance >= 100]_vars

(* C18, amended: decay(0), whatever floors the caller passes after the age,
   removes every record with importance < 0.7 and access_count < 3 that was
   last accessed before the millisecond of the call, and keeps every record
   with importance >= 0.7, every record with access_count >= 3 and every
   record stored or touched in the millisecond of the call. *)
C18_ZeroAgeRemovesOldLowRare ==
    [][(DecayStep /\ ret'.arguments[1] = 0) =>
        /\ \A k \in DOMAIN memories' :
              \/ memories'[k].importance >= 70
              \/ memories'[k].access_count >= 3
              \/ memories'[k].last_accessed = now
        /\ \A k \in DOMAIN memories :
              (\/ memories[k].importance >= 70
               \/ memories[k].access_count >= 3
               \/ memories[k].last_accessed >= now) =>
                  \E n \in DOMAIN memories' : memories'[n] = memories[k]]_vars

C18_Witness ==
    /\ ret.op = "decay"
    /\ ret.arguments = <<0, 100, 1000000>>
    /\ ret.changes >= 1
    /\ \E k \in DOMAIN memories :
          /\ memories[k].importance >= 70
          /\ memories[k].importance < 100
          /\ memories[k].last_accessed < now
    /\ \E k \in DOMAIN memories :
          /\ memories[k].importance < 70
          /\ memories[k].access_count < 3
          /\ memories[k].last_accessed = now

\* the vector has unit length and is at similarity 1.0 to itself
UnitVector(e) ==
    /\ \E k \in DOMAIN e.num : e.num[k] # 0
    /\ e.den2 = Dot(e.num, e.num, Length(e) - 1)
    /\ cosineSimilarity(e, e) = 1000

(* C19: every embedding computed or stored is L2-normalized: for every
   non-empty text x, embed(x) is not the zero vector and
   cosineSimilarity(embed(x), embed(x)) is 1.0, one-character texts
   included. *)
C19_EmbeddingsAreUnitVectors ==
    /\ \A k \in DOMAIN memories :
          memories[k].content # <<>> => UnitVector(memories[k].embedding)
    /\ (ret.op = "search" /\ ret.query # <<>>) => UnitVector(embed(ret.query))

(* C20: two vectors of different dimension never get a similarity: a
   search over a store holding a record written with another dimension
   than the searching one fails, and returns no ranked results. *)
C20_DimensionMismatchIsFatal ==
    (/\ ret.op = "search"
     /\ \E k \in DOMAIN memories : Length(memories[k].embedding) # dimension) =>
        /\ ret.threw
        /\ ret.results = <<>>

\* buildContext returned, with no search result of either store
BothSearchesEmpty ==
    /\ answer.op = "buildContext"
    /\ ~answer.threw
    /\ answer.found = <<>>
    /\ answer.past = <<>>

(* C21: buildContext returns the buffer snapshot unchanged (same turns, same
   order, no added turn) whenever the search of the semantic store and the
   search of the episodic log both return no results, whatever else the
   stores hold, accumulated lessons for example. *)
C21_NoHitsReturnsBuffer ==
    BothSearchesEmpty => answer.returned = shortTerm

(* C21, amended: buildContext returns the buffer snapshot unchanged whenever
   both searches return no results and the episodic log holds no lessons. *)
C21_NoHitsNoLessonsReturnsBuffer ==
    (BothSearchesEmpty /\ getLessons(episodes) = <<>>) =>
        /\ ~answer.injected
        /\ answer.returned = shortTerm

\* the case: records in the store and turns in the buffer, none found
C21_Witness ==
    /\ BothSearchesEmpty
    /\ getLessons(episodes) = <<>>
    /\ longTerm # <<>>
    /\ Len(shortTerm) > 1

(* C22: when a search returns results, the turns built for the model are the
   buffer snapshot with exactly one additional system turn inserted at
   position 1, right after the original system turn, all original turns in
   their order, and the buffer itself is not modified by building them. *)
C22_ContextTurnAtPositionOne ==
    (ret.op = "run" /\ ~ret.threw /\ ret.results # <<>>) =>
        /\ Len(ret.context) = Len(ret.snapshot) + 1
        /\ ret.context[2].role = "system"
        /\ ret.context = Splice1(getMessages(ret.snapshot), ret.context[2])
        /\ ret.buffer = ret.snapshot

\* a step of processResponse that returned
ProcessStep == calls' = calls + 1 /\ answer'.op = "processResponse" /\ ~answer'.threw

\* what a search for the candidate at the high threshold finds before the step
Duplicates(content) ==
    longTermSearch(longTerm, content, 1, DedupSimilarity, clock, "returns", closed).results

(* C23: processExchange skips duplicates: it calls store() for a candidate
   if and only if a search of the store at the high similarity threshold
   (0.85) returned no hit; on a hit the record there is not overwritten, its
   type, importance and access statistics are not reset, and processing
   candidates that are all there already does not grow the store. *)
C23_SkipsDuplicates ==
    [][ProcessStep =>
          /\ \A n \in DOMAIN answer'.memories :
                LET hit == Duplicates(answer'.memories[n].content)
                IN  hit # <<>> =>
                      \E k \in DOMAIN longTerm' :
                          /\ longTerm'[k].id = hit[1].entry.id
                          /\ longTerm'[k].type = hit[1].entry.metadata.type
                          /\ longTerm'[k].importance = hit[1].entry.metadata.importance
                          /\ longTerm'[k].created_at = hit[1].entry.metadata.createdAt
                          /\ longTerm'[k].access_count >= hit[1].entry.metadata.accessCount
          /\ (\A n \in DOMAIN answer'.memories :
                  Duplicates(answer'.memories[n].content) # <<>>) =>
                Len(longTerm') = Len(longTerm)]_vars

\* a step of endSession
EndStep == calls' = calls + 1 /\ answer'.op = "endSession"

(* C24: endSession saves an episode only if the buffer holds more than the
   system turn and the first exchange: a buffer of a system turn, a user turn
   and an assistant turn produces no episode. *)
C24_FirstExchangeIsNoEpisode ==
    [][(EndStep /\ Len(shortTerm) <= 3) =>
          /\ ~answer'.saveEpisode
          /\ episodes' = episodes]_vars

(* C24, amended: endSession saves an episode only if the buffer holds more
   than two turns: a buffer of a system turn and one more turn produces no
   episode. *)
C24_TwoTurnsAreNoEpisode ==
    [][(EndStep /\ Len(shortTerm) <= 2) =>
          /\ ~answer'.saveEpisode
          /\ ~answer'.threw
          /\ episodes' = episodes]_vars

\* the case: endSession on a buffer of the system turn and a user turn
C24_Witness ==
    /\ answer.op = "endSession"
    /\ Len(shortTerm) = 2
    /\ ~answer.saveEpisode
    /\ episodes = <<>>

(* C25: when an external capability (the embedding, the extractor) throws,
   buildContext returns the buffer unchanged and processExchange stores
   nothing, and neither lets the failure reach its caller. *)
C25_CapabilityFailureIsAbsorbed ==
    /\ (answer.op = "buildContext" /\ answer.embedding = "throws") =>
          /\ ~answer.threw
          /\ answer.returned = shortTerm
    /\ (answer.op = "processResponse"
          /\ (answer.extractor = "throws" \/ answer.failAt # 0)) =>
          /\ ~answer.threw
          /\ answer.stored = 0

(* C26: saveEpisode never mutates the turns it is given, and an episode,
   once saved, stays as it is after any sequence of saveEpisode, getRecent,
   searchEpisodes, getByTool and getLessons. *)
C26_EpisodesAreImmutable ==
    [][/\ \A k \in DOMAIN episodes :
             k \in DOMAIN episodes' /\ episodes'[k] = episodes[k]
       /\ answer'.op = "saveEpisode" => shortTerm' = shortTerm]_vars

\* the case: a second saveEpisode under the id of an episode saved before,
\* on a buffer that has grown since
C26_Witness ==
    /\ answer.op = "saveEpisode"
    /\ answer.threw
    /\ Len(episodes) = 1
    /\ episodes[1].id = <<"ep", "s1", clock>>
    /\ episodes[1].messages # shortTerm

(* C27: maintenance() invokes decay() and reports the number of records
   removed, and is never fatal: when decay fails, maintenance reports
   without throwing. *)
C27_MaintenanceNeverThrows ==
    answer.op = "maintenance" => ~answer.threw

\* a step of store() or search() whose embedding request failed
EmbeddingFailed ==
    /\ calls' = calls + 1
    /\ answer'.op \in {"store", "search"}
    /\ answer'.embedding = "throws"

(* C28: a store() or search() whose embedding call fails leaves no partial
   state in the store: the rows are as they were before the call. *)
C28_FailedEmbeddingLeavesNoState ==
    [][EmbeddingFailed => (answer'.threw /\ longTerm' = longTerm)]_vars

\* the case: a store() or a search() that failed on a store holding records
C28_Witness ==
    /\ answer.op \in {"store", "search"}
    /\ answer.embedding = "throws"
    /\ answer.threw
    /\ longTerm # <<>>

\* the request leaves out what its operation needs
UnderSpecified ==
    \/ request.operation = "pick" /\ request.fields = <<>>
    \/ request.operation = "filter" /\ request.condition = Undefined
    \/ request.operation = "filter" /\ ~IsArray(request.data)
    \/ request.operation = "sort" /\ request.fields = <<>>
    \/ request.operation \in {"sort", "group_by"} /\ ~IsArray(request.data)
    \/ request.operation = "group_by" /\ request.fields = <<>>

(* C29: jsonTransform rejects an under-specified request by throwing, never
   by returning a value: pick with no fields, filter with no condition,
   filter on a non-array, sort with no field, sort or group_by on a
   non-array, and group_by with no field each throw. *)
C29_UnderSpecifiedThrows ==
    (response.op = "jsonTransform" /\ UnderSpecified) =>
        /\ response.threw
        /\ response.result = Undefined

\* the case: group_by of an array with no field
C29_Witness ==
    /\ response.op = "jsonTransform"
    /\ request.operation = "group_by"
    /\ request.fields = <<>>
    /\ request.data = People
    /\ response.threw

\* a step of jsonTransform
TransformStep == response'.calls = response.calls + 1

(* C30: jsonTransform has no side effect: for every operation it leaves the
   data it was given unchanged (same elements, same order, same fields), and
   a second call with equal arguments returns an equal result. *)
C30_TransformIsPure ==
    [][TransformStep =>
          /\ request' = request
          /\ response.op = "jsonTransform" =>
                /\ response'.threw = response.threw
                /\ response'.result = response.result]_vars

\* the case: a second sort of an array that is not in order
C30_Witness ==
    /\ response.calls = 2
    /\ request.operation = "sort"
    /\ ~response.threw
    /\ request.data = People
    /\ response.result # request.data

-----------------------------------------------------------------------------
AddStep == adds' = adds + 1

(* C31: the two passes are ordered and the second is conditional.  An add()
   drops a turn or inserts a synthetic turn only if the buffer it pushed to
   was over max_tokens and is still over max_tokens after the tool-result
   pass; the turns that survive a drop are the turns as the tool-result pass
   left them; and an add() whose push leaves the total at or below
   max_tokens leaves the previous turns as they were, followed by the new
   turn. *)
C31_SecondPassIsConditional ==
    [][AddStep =>
        /\ Ids(messages') # Ids(pushed') =>
              /\ Total(pushed') > maxTokens
              /\ Total(truncated') > maxTokens
        /\ \A i \in DOMAIN messages' :
              messages'[i].id \in Ids(pushed') =>
                  messages'[i] = truncated'[PosOf(truncated', messages'[i].id)]
        /\ Total(pushed') <= maxTokens =>
              /\ Len(messages') = Len(messages) + 1
              /\ SubSeq(messages', 1, Len(messages)) = messages
              /\ messages'[Len(messages')].id = adds'
              /\ truncated' = pushed']_vars

\* the tool-result pass alone brought a buffer of 12 turns back under budget
C31_Witness ==
    /\ Len(pushed) >= keep + keepEnd + 1
    /\ Total(pushed) > maxTokens
    /\ truncated # pushed
    /\ Total(truncated) <= maxTokens
    /\ messages = truncated

-----------------------------------------------------------------------------
\* the turns the last add() removed, as they were when pass 2 removed them
DroppedTurns == SelectSeq(truncated, LAMBDA m : m.id \notin Ids(messages))

RoleCount(s, role) == Len(SelectSeq(s, LAMBDA m : m.role = role))

RoleCounts(s) == [role \in {"system", "user", "assistant", "tool"} |-> RoleCount(s, role)]

\* the first 50 characters of every user turn of s
UserPreviews(s) ==
    LET users == SelectSeq(s, LAMBDA m : m.role = "user")
    IN  [i \in DOMAIN users |->
            [n |-> users[i].content.n, len |-> Min(50, users[i].content.len)]]

(* C32: the synthetic turn that pass 2 creates records the number of turns
   dropped between head and tail, the number of dropped turns of each role
   and the first 50 characters of every dropped user turn.  A content value
   records what its fields hold. *)
C32_MarkerRecordsDropped ==
    DroppedByLastAdd =>
        \E i \in DOMAIN messages :
            /\ messages[i].id = -adds
            /\ IsMarker(messages[i])
            /\ messages[i].content.n = Len(DroppedTurns)
            /\ "roles" \in DOMAIN messages[i].content
            /\ messages[i].content.roles = RoleCounts(DroppedTurns)
            /\ "previews" \in DOMAIN messages[i].content
            /\ messages[i].content.previews = UserPreviews(DroppedTurns)

-----------------------------------------------------------------------------
\* the age decay() was called with, in milliseconds
MaxAge(arguments) ==
    (IF Len(arguments) >= 1 THEN arguments[1] ELSE DefaultMaxAgeDays) * MsPerDay

RowOf(rows, id) == rows[PosOf(rows, id)]

(* C33: the read-through touch protects records from decay.  A record that
   a search returned less than max_age before a decay() is not removed by
   that decay, and a record that at least 3 searches (the access floor)
   returned since store() last wrote it is not removed by decay, whatever
   its age. *)
C33_TouchProtectsFromDecay ==
    [][DecayStep =>
        \A id \in Ids(memories) :
            /\ (hits[id].seen /\ now - hits[id].at < MaxAge(ret'.arguments))
                  => id \in Ids(memories')
            /\ hits[id].count >= AccessFloor => id \in Ids(memories')]_vars

\* a decay has spared two records below the importance floor, written more
\* than max_age ago: one returned by a search within max_age and by fewer
\* than 3 searches, the other returned by 3 searches, the last of them more
\* than max_age ago
C33_Witness ==
    /\ ret.op = "decay"
    /\ \E i \in DOMAIN memories :
          /\ memories[i].importance < ImportanceFloor100
          /\ memories[i].created_at < now - MaxAge(ret.arguments)
          /\ hits[memories[i].id].count < AccessFloor
          /\ hits[memories[i].id].seen
          /\ now - hits[memories[i].id].at < MaxAge(ret.arguments)

C33_WitnessOften ==
    /\ ret.op = "decay"
    /\ \E i \in DOMAIN memories :
          /\ memories[i].importance < ImportanceFloor100
          /\ hits[memories[i].id].count >= AccessFloor
          /\ hits[memories[i].id].seen
          /\ now - hits[memories[i].id].at > MaxAge(ret.arguments)

-----------------------------------------------------------------------------
(* C34: the access_count of every record is the number of searches that
   returned the record since store() last wrote its content, and a call
   lowers the access_count of a record it leaves in the store only when the
   call is a store() of that record, which sets it to 0. *)
C34_AccessCountCountsSearches ==
    [][/\ \A i \in DOMAIN memories' :
             memories'[i].access_count = hits'[memories'[i].id].count
       /\ \A id \in Ids(memories) \cap Ids(memories') :
             RowOf(memories', id).access_count < RowOf(memories, id).access_count
                 => /\ ret'.op = "store"
                    /\ ret'.id = id
                    /\ RowOf(memories', id).access_count = 0]_vars

\* a store() has reset a record that a search had returned, and a search
\* has returned the record once since
C34_Witness ==
    /\ ret.op = "search"
    /\ replaced # <<>>
    /\ replaced[1].access_count >= 1
    /\ replaced[1].id \in Ids(memories)
    /\ RowOf(memories, replaced[1].id).access_count = 1
    /\ hits[replaced[1].id].at = now

-----------------------------------------------------------------------------
\* the tool message at position i follows the assistant message that called
\* its tool
Paired(msgs, i) ==
    \E j \in 1..(i - 1) :
        /\ msgs[j].role = "assistant"
        /\ msgs[j].id = origin[msgs[i].id]

(* C35: after the add() calls of the agent loop, every tool message of
   getMessages() is preceded by the assistant message whose tool_calls hold
   its tool_call_id: compaction leaves no tool result whose assistant
   message it has dropped. *)
C35_ToolResultsKeepTheirCall ==
    \A i \in DOMAIN messages :
        messages[i].role = "tool" => Paired(messages, i)

(* C37: run() makes at most MAX_ITERATIONS model calls, the calls that
   throw a retryable error and the calls that throw another error
   included, and a run() that has entered its loop ends, returning the
   final reply or the message that it was unable to complete the task. *)
C37_RunTerminates ==
    (pc = "loop") ~> (/\ pc = "idle"
                      /\ returned \in {"content", "unable"}
                      /\ modelCalls <= MAX_ITERATIONS)

\* a run() of six passes has given up: its calls threw retryable errors and
\* other errors and returned tool calls, and none returned a final reply
C37_Witness ==
    /\ pc = "idle"
    /\ returned = "unable"
    /\ MAX_ITERATIONS = 6
    /\ modelCalls = 6
    /\ iterations = 6
    /\ Len(messages) < 2 + 6
    /\ \E i \in DOMAIN messages : messages[i].role = "tool"
    /\ \E i \in DOMAIN messages : messages[i].role = "system" /\ messages[i].id > 2

-----------------------------------------------------------------------------
Markers(s) == {i \in DOMAIN s : IsMarker(s[i])}

(* C36: the buffer holds at most one synthetic omission turn; when there is
   one it is the fourth turn, right after the 3 head turns; and an add()
   that drops turns from a buffer that held a synthetic turn drops that turn
   and leaves the one it creates. *)
C36_OneMarkerAfterHead ==
    /\ Cardinality(Markers(messages)) <= 1
    /\ Markers(messages) \subseteq {keep + 1}
    /\ (DroppedByLastAdd /\ Markers(pushed) # {}) =>
          /\ \A i \in Markers(pushed) : pushed[i].id \notin Ids(messages)
          /\ messages[keep + 1].id = -adds

\* a compaction has replaced the synthetic turn of an earlier compaction,
\* after adds that dropped nothing had let the buffer grow past 13 turns
C36_Witness ==
    /\ DroppedByLastAdd
    /\ Markers(pushed) = {keep + 1}
    /\ Len(pushed) > keep + keepEnd + 2
    /\ Markers(messages) = {keep + 1}
    /\ messages[keep + 1].content.n = Len(pushed) - keep - keepEnd

-----------------------------------------------------------------------------
(* C38: in the documented agent loop every store operation that a started
   processResponse() issues completes before close(): when the store is
   closed no processResponse() is still running, no store() has reached
   the closed database, and no extracted memory was left unwritten because
   of it. *)
C38_StoresCompleteBeforeClose ==
    /\ closed => tasks = <<>>
    /\ ~raced
    /\ closed => lost = <<>>


(* C39: once maxFailures calls have failed with no success in between, a
   call() made within resetTimeMs of the last failure throws without invoking
   the wrapped function; a call() made after resetTimeMs is let through; a
   success closes the circuit and sets the failure count to 0; a failure of a
   tripped breaker opens it again. *)
Tripped == Len(streak) >= maxFailures /\ streak # <<>>

Called == lastCall' # lastCall

C39_BreakerStopsCalls ==
    [][ /\ (Called /\ Tripped /\ time - streak[Len(streak)] <= resetTimeMs)
            => (lastCall'.threw /\ pending' = pending)
        /\ (Called /\ Tripped /\ time - streak[Len(streak)] > resetTimeMs)
            => (~lastCall'.threw /\ pending' = pending + 1)
        /\ (pending' = pending - 1 /\ streak' = <<>>)
            => (state' = "closed" /\ failures' = 0)
        /\ (pending' = pending - 1 /\ streak' # <<>> /\ Len(streak') >= maxFailures)
            => (state' = "open" /\ lastFailure' = time) ]_vars

\* a call let through after resetTimeMs has failed, and the next call is
\* thrown back
C39_Witness ==
    /\ Len(streak) > maxFailures
    /\ streak[Len(streak)] - streak[Len(streak) - 1] > resetTimeMs
    /\ lastCall.op = "call"
    /\ lastCall.threw
    /\ lastCall.was = "open"

=============================================================================
